---- MODULE Spec2Model ----
(***************************************************************************)
(* Model of the w3c-mcp data loader (src/data/loader.ts), its spec         *)
(* resolver findSpec, the quickFindByShortname fast path and the server    *)
(* entry point main (src/index.ts).                                        *)
(*                                                                         *)
(* An async function is a caller that runs its synchronous part in one    *)
(* step and resumes in a later step, once the promise it awaits has        *)
(* settled.  `promises` holds the promises that can still be observed:     *)
(* those memoized, those a caller awaits or has received, and those of     *)
(* loadSpecs whose callback has not run yet.                               *)
(***************************************************************************)
EXTENDS Integers, Sequences, FiniteSets, TLC

\* ------------------------------------------------------------------------
\* Bounds of the model
\* ------------------------------------------------------------------------

\* at most this many clearCache calls in a behaviour
MaxClears == 1
\* at most this many records in the bundled specification collection
MaxSpecs == 2
\* at most this many specs in the element data
MaxElementSpecs == 11

\* characters of shortnames, series aliases and identifiers
Chars == {"a", "b"}

\* strings are sequences of characters
Str1 == {<<x>> : x \in Chars}
Str2 == {<<x, y>> : x \in Chars, y \in Chars}

\* shortnames of specification records
Names == Str1 \cup Str2
\* series aliases
Aliases == Str1
\* identifiers handed to findSpec: any name, and the empty string
Identifiers == Names \cup {<< >>}

\* the clients of the loader (test code or tool requests), and the
\* server's entry point
Clients == {"c1", "c2"}
Main == "main"
Callers == Clients \cup {Main}
\* the client of the sequential specification
SeqClient == "c1"

\* ------------------------------------------------------------------------
\* Values
\* ------------------------------------------------------------------------

\* the value of a variable that holds no promise and no Map
Null == [null |-> TRUE]
IsNull(x) == "null" \in DOMAIN x
\* the result of a lookup that found nothing
Undefined == [undefined |-> TRUE]
\* a record without a series
NoSeries == [absent |-> TRUE]
Kinds == {"specs", "idl", "css", "elements"}
LoadOrder == <<"specs", "idl", "css", "elements">>

\* a Map from keys to records
NewMap == [entries |-> << >>]
MapHas(m, k) == k \in DOMAIN m.entries
MapGet(m, k) == m.entries[k]
MapSet(m, k, v) ==
    [m EXCEPT !.entries =
        [x \in DOMAIN m.entries \cup {k} |-> IF x = k THEN v ELSE m.entries[x]]]

\* String.prototype.includes
Includes(s, t) ==
    \E i \in 0 .. (Len(s) - Len(t)) : SubSeq(s, i + 1, i + Len(t)) = t

\* a SpecDetail record, reduced to the fields the loader reads
SpecDetail(shortname, series) ==
    [shortname |-> shortname, series |-> series]
Series(alias, current) ==
    [shortname |-> alias, currentSpecification |-> current]

IsUndefined(x) == "undefined" \in DOMAIN x

\* spec.series?.shortname is a (non-empty) string
HasSeries(spec) == "shortname" \in DOMAIN spec.series

\* ------------------------------------------------------------------------
\* The bundled collections (the web-specs package): up to MaxSpecs records
\* with pairwise different shortnames; the members of one series agree on
\* its current specification, which is one of them
\* ------------------------------------------------------------------------

RECURSIVE SeqsUpTo(_, _)
SeqsUpTo(S, n) ==
    IF n = 0 THEN {<< >>}
    ELSE LET shorter == SeqsUpTo(S, n - 1)
         IN  shorter \cup
             {Append(q, x) : q \in {r \in shorter : Len(r) = n - 1}, x \in S}

\* the shortnames of a collection, in its order
NameSeqs ==
    {ns \in SeqsUpTo(Names, MaxSpecs) :
        \A i, j \in DOMAIN ns : ns[i] = ns[j] => i = j}

\* the series alias of every record; the empty string for a record that
\* has no series
AliasChoices(ns) == [DOMAIN ns -> Aliases \cup {<< >>}]

Members(ns, as, a) == {ns[i] : i \in {j \in DOMAIN ns : as[j] = a}}

\* the current specification of every series that has members
CurrentChoices(ns, as) ==
    {cur \in [Aliases -> Names \cup {<< >>}] :
        \A a \in Aliases :
           IF Members(ns, as, a) = {} THEN cur[a] = << >>
           ELSE cur[a] \in Members(ns, as, a)}

Collection(ns, as, cur) ==
    [i \in DOMAIN ns |->
        SpecDetail(ns[i], IF as[i] = << >> THEN NoSeries
                          ELSE Series(as[i], cur[as[i]]))]

Collections ==
    UNION { UNION { {Collection(ns, as, cur) : cur \in CurrentChoices(ns, as)} :
                    as \in AliasChoices(ns) } :
            ns \in NameSeqs }

\* the collection used when the interleaving of calls is explored
ExampleSpecs ==
    << SpecDetail(<<"a", "b">>, Series(<<"b">>, <<"a", "b">>)),
       SpecDetail(<<"a">>, NoSeries) >>
ExampleIdentifiers == {<<"a">>, <<"b", "a">>}

\* the data of the @webref packages: for each kind, the keys of the
\* object that listAll() returns, in the order of Object.keys
Webref(idl, elements) == [idl |-> idl, elements |-> elements]
ExampleWebref == Webref(<<<<"a">>>>, <<<<"a">>>>)

\* ------------------------------------------------------------------------
\* State
\* ------------------------------------------------------------------------

VARIABLES
    webSpecs,         \* the array exported by the web-specs package
    webref,           \* the data of the @webref packages, by kind
    promises,         \* the promises of the load functions, by identity
    specsPromise,     \* loader.ts: the four memoized promises (or null)
    idlPromise,
    cssPromise,
    elementsPromise,
    specsIndex,       \* loader.ts: Map shortname -> record (or null)
    seriesIndex,      \* loader.ts: Map series alias -> record (or null)
    callers,          \* the position of every running async call
    epoch,            \* number of clearCache calls so far
    started,          \* underlying loads started since the last clearCache
    loadCalled,       \* a load function was called since the last clearCache
    preload,          \* what is known of completed preloadAll calls
    mainPc,           \* index.ts: position of main
    preloadCalls,     \* index.ts: number of preloadAll calls made by main
    exitCode          \* index.ts: the code passed to process.exit

cacheVars == <<specsPromise, idlPromise, cssPromise, elementsPromise>>
indexVars == <<specsIndex, seriesIndex>>
mainVars == <<mainPc, preloadCalls, exitCode>>
vars == <<webSpecs, webref, promises, cacheVars, indexVars, callers, epoch, started,
          loadCalled, preload, mainVars>>

\* the memoized promise of a collection
Memo(k) ==
    CASE k = "specs" -> specsPromise
      [] k = "idl" -> idlPromise
      [] k = "css" -> cssPromise
      [] k = "elements" -> elementsPromise

Cache == [k \in Kinds |-> Memo(k)]

SetCache(c) ==
    /\ specsPromise' = c["specs"]
    /\ idlPromise' = c["idl"]
    /\ cssPromise' = c["css"]
    /\ elementsPromise' = c["elements"]

\* the identity of a promise: the n-th one created for collection k after
\* e calls of clearCache
PromiseId(k, e, n) == [kind |-> k, epoch |-> e, n |-> n]

PromiseIds == DOMAIN promises

Pending(p) == promises[p].state = "pending"
Fulfilled(p) == promises[p].state = "fulfilled"
Rejected(p) == promises[p].state = "rejected"
Settled(p) == ~Pending(p)

\* a call that is not running
IdleCall ==
    [op |-> "idle", pc |-> "idle", kind |-> "none", id |-> << >>,
     awaiting |-> << >>, epoch |-> 0, retry |-> FALSE,
     locals |-> << >>, result |-> [status |-> "none"]]

Awaits(call, p) ==
    /\ call.pc # "idle"
    /\ \E i \in DOMAIN call.awaiting : call.awaiting[i] = p

\* the promises that can still be observed, given the cache and the calls
Collect(ps, cache, cs) ==
    LET live(p) ==
          \/ \E k \in Kinds : cache[k] = p
          \/ \E c \in Callers : Awaits(cs[c], p)
          \/ (p.kind = "specs" /\ ps[p].state = "pending")
    IN  [p \in {q \in DOMAIN ps : live(q)} |-> ps[p]]

\* ------------------------------------------------------------------------
\* loadSpecs, loadWebIDLRaw, loadCSS, loadElements: the synchronous part
\* ------------------------------------------------------------------------

\* a faulty variant of NeedsLoad: the memoized promise is not consulted
NeedsLoadAlways(memo) == TRUE

\* if (!specsPromise) ... : a load is started only when nothing is memoized
NeedsLoad(memo) == IsNull(memo)

\* the promise created by a load function: pending, its underlying load
\* (the callback of loadSpecs, the async body of the others) not finished
NewPromise == [state |-> "pending", value |-> "none", failed |-> FALSE]

\* the synchronous part of the load functions of the kinds of order, called
\* one after the other: the promises, the cache and the number of loads
\* started after the calls
RECURSIVE LoadAll(_, _, _, _)
LoadAll(order, ps, cache, st) ==
    IF order = << >> THEN [promises |-> ps, cache |-> cache, started |-> st]
    ELSE LET k == Head(order)
             p == PromiseId(k, epoch, st[k] + 1)
         IN  IF NeedsLoad(cache[k])
             THEN LoadAll(Tail(order),
                          [q \in DOMAIN ps \cup {p} |->
                              IF q = p THEN NewPromise ELSE ps[q]],
                          [cache EXCEPT ![k] = p],
                          [st EXCEPT ![k] = @ + 1])
             ELSE LoadAll(Tail(order), ps, cache, st)

\* the call of the load function of k is answered with a memoized promise
\* that was already rejected when the call was made
IsRetry(k, cache) ==
    ~IsNull(Memo(k)) /\ Rejected(Memo(k)) /\ cache[k] = Memo(k)

\* the calls of the load functions of order by caller c, who then is as
\* call says and awaits the memoized promises
Load(c, order, call) ==
    LET after == LoadAll(order, promises, Cache, started)
    IN  /\ SetCache(after.cache)
        /\ started' = after.started
        /\ callers' = [callers EXCEPT ![c] =
              [call EXCEPT !.pc = "await",
                 !.awaiting = [i \in DOMAIN order |-> after.cache[order[i]]],
                 !.retry = \E i \in DOMAIN order :
                              IsRetry(order[i], after.cache)]]
        /\ promises' = Collect(after.promises, after.cache, callers')
        /\ loadCalled' = TRUE

\* a caller calls one of the four load functions and awaits its result
CallLoad(c, k) ==
    /\ callers[c].op = "idle"
    /\ Load(c, <<k>>, [IdleCall EXCEPT !.op = "load", !.kind = k,
                                       !.epoch = epoch])
    /\ UNCHANGED <<webSpecs, webref, indexVars, epoch, preload, mainVars>>

\* ------------------------------------------------------------------------
\* buildSpecIndices
\* ------------------------------------------------------------------------

\* a faulty variant of SetSeries: a later member of a series replaces
\* an earlier one
SetSeriesLastWins(index, spec) ==
    IF HasSeries(spec)
    THEN MapSet(index, spec.series.shortname, spec)
    ELSE index

\* if (spec.series?.shortname) { if (!seriesIndex.has(..)) seriesIndex.set(..) }
SetSeries(index, spec) ==
    IF HasSeries(spec) /\ ~MapHas(index, spec.series.shortname)
    THEN MapSet(index, spec.series.shortname, spec)
    ELSE index

\* the loop of buildSpecIndices, from record i on
RECURSIVE BuildFrom(_, _, _, _)
BuildFrom(specs, i, byName, bySeries) ==
    IF i > Len(specs)
    THEN [specsIndex |-> byName, seriesIndex |-> bySeries]
    ELSE BuildFrom(specs, i + 1,
                   MapSet(byName, specs[i].shortname, specs[i]),
                   SetSeries(bySeries, specs[i]))

buildSpecIndices(specs) == BuildFrom(specs, 1, NewMap, NewMap)

\* ------------------------------------------------------------------------
\* The underlying loads
\* ------------------------------------------------------------------------

\* the value of a collection that loaded, and of one that degraded
LoadedValue(k) == IF k = "specs" THEN "specs" ELSE "data"
EmptyCollection == "empty"

\* a faulty variant of LoadFailure: no load function catches the error
LoadFailureThrows(k) == [state |-> "rejected", value |-> "error"]

\* what becomes of the promise when the underlying load throws: loadSpecs
\* has no handler, the other three catch the error and return empty
LoadFailure(k) ==
    IF k = "specs"
    THEN [state |-> "rejected", value |-> "error"]
    ELSE [state |-> "fulfilled", value |-> EmptyCollection]

Settle(p, ok) ==
    LET out == IF ok THEN [state |-> "fulfilled", value |-> LoadedValue(p.kind)]
                     ELSE LoadFailure(p.kind)
    IN  Collect([promises EXCEPT ![p] =
                    [state |-> out.state, value |-> out.value, failed |-> ~ok]],
                Cache, callers)

\* callbacks queued with then() run in the order they were queued
NextSpecsCallback(p) ==
    /\ p \in PromiseIds
    /\ p.kind = "specs"
    /\ Pending(p)
    /\ \A q \in PromiseIds :
          (q.kind = "specs" /\ Pending(q)) =>
             (p.epoch < q.epoch \/ (p.epoch = q.epoch /\ p.n <= q.n))

\* the callback of loadSpecs: require('web-specs') returns the array, the
\* indices are built from it
SpecsLoaded(p) ==
    /\ NextSpecsCallback(p)
    /\ promises' = Settle(p, TRUE)
    /\ specsIndex' = buildSpecIndices(webSpecs).specsIndex
    /\ seriesIndex' = buildSpecIndices(webSpecs).seriesIndex
    /\ UNCHANGED <<webSpecs, webref, cacheVars, callers, epoch, started, loadCalled,
                   preload, mainVars>>

\* the callback of loadSpecs: require('web-specs') throws
SpecsFailed(p) ==
    /\ NextSpecsCallback(p)
    /\ promises' = Settle(p, FALSE)
    /\ UNCHANGED <<webSpecs, webref, cacheVars, indexVars, callers, epoch, started,
                   loadCalled, preload, mainVars>>

\* the async body of loadWebIDLRaw, loadCSS or loadElements finishes,
\* with the data or (ok = FALSE) with an error inside its try block
DataLoaded(p, ok) ==
    /\ p \in PromiseIds
    /\ p.kind # "specs"
    /\ Pending(p)
    /\ promises' = Settle(p, ok)
    /\ UNCHANGED <<webSpecs, webref, cacheVars, indexVars, callers, epoch, started,
                   loadCalled, preload, mainVars>>

\* ------------------------------------------------------------------------
\* The callers of the load functions
\* ------------------------------------------------------------------------

ResultOf(p) ==
    [status |-> IF Fulfilled(p) THEN "ok" ELSE "error",
     value |-> promises[p].value, promise |-> p]

\* the awaited promise has settled: the call of the load function returns
\* its value or throws its error
ResumeLoad(c) ==
    /\ callers[c].op = "load"
    /\ callers[c].pc = "await"
    /\ Settled(callers[c].awaiting[1])
    /\ callers' = [callers EXCEPT ![c].pc = "done",
                                  ![c].result = ResultOf(callers[c].awaiting[1])]
    /\ UNCHANGED <<webSpecs, webref, promises, cacheVars, indexVars, epoch, started,
                   loadCalled, preload, mainVars>>

\* the caller drops the result of its finished call
Return(c) ==
    /\ c \in Clients
    /\ callers[c].pc = "done"
    /\ callers' = [callers EXCEPT ![c] = IdleCall]
    /\ promises' = Collect(promises, Cache, callers')
    /\ UNCHANGED <<webSpecs, webref, cacheVars, indexVars, epoch, started,
                   loadCalled, preload, mainVars>>

\* ------------------------------------------------------------------------
\* clearCache
\* ------------------------------------------------------------------------

\* a faulty variant of ClearedCache: cssPromise is left in place
ClearedCacheKeepsCSS == [k \in Kinds |-> IF k = "css" THEN cssPromise ELSE Null]

\* the four promise variables after clearCache
ClearedCache == [k \in Kinds |-> Null]

ClearCache ==
    /\ epoch < MaxClears
    /\ SetCache(ClearedCache)
    /\ specsIndex' = Null
    /\ seriesIndex' = Null
    /\ epoch' = epoch + 1
    /\ started' = [k \in Kinds |-> 0]
    /\ loadCalled' = FALSE
    /\ preload' = [done |-> FALSE, clean |-> FALSE]
    /\ promises' = Collect(promises, ClearedCache, callers)
    /\ UNCHANGED <<webSpecs, webref, callers, mainVars>>

\* ------------------------------------------------------------------------
\* preloadAll
\* ------------------------------------------------------------------------

\* a faulty variant of AllSettlement: the first fulfilled promise decides
AnySettlement(ps) ==
    IF \E i \in DOMAIN ps : Rejected(ps[i]) THEN "error"
    ELSE IF \E i \in DOMAIN ps : Fulfilled(ps[i]) THEN "ok"
    ELSE "pending"

\* Promise.all over the promises ps: rejected as soon as one of them is,
\* fulfilled once all are
AllSettlement(ps) ==
    IF \E i \in DOMAIN ps : Rejected(ps[i]) THEN "error"
    ELSE IF \A i \in DOMAIN ps : Fulfilled(ps[i]) THEN "ok"
    ELSE "pending"

\* the synchronous part of preloadAll: the four load functions are called
\* one after the other, then Promise.all is awaited
CallPreloadAll(c) ==
    /\ callers[c].op = "idle"
    /\ Load(c, LoadOrder, [IdleCall EXCEPT !.op = "preloadAll",
                                           !.epoch = epoch])
    /\ UNCHANGED <<webSpecs, webref, indexVars, epoch, preload, mainVars>>

\* preloadAll returns (or throws)
ResumePreloadAll(c) ==
    LET outcome == AllSettlement(callers[c].awaiting)
    IN  /\ callers[c].op = "preloadAll"
        /\ callers[c].pc = "await"
        /\ outcome # "pending"
        /\ callers' = [callers EXCEPT ![c].pc = "done",
                                      ![c].result = [status |-> outcome]]
        /\ preload' = IF outcome = "ok"
                      THEN [done |-> TRUE,
                            clean |-> preload.clean \/ callers[c].epoch = epoch]
                      ELSE preload
        /\ UNCHANGED <<webSpecs, webref, promises, cacheVars, indexVars, epoch,
                       started, loadCalled, mainVars>>

\* ------------------------------------------------------------------------
\* findSpec and quickFindByShortname
\* ------------------------------------------------------------------------

EXACT_SHORTNAME == 100

\* toSpecSummary, reduced to the fields of the record that are modelled
toSpecSummary(spec) == [shortname |-> spec.shortname]

\* a faulty variant of IndexLookup: the series index is consulted first
IndexLookupSeriesFirst(byName, bySeries, shortname) ==
    IF ~IsNull(bySeries) /\ MapHas(bySeries, shortname)
    THEN MapGet(bySeries, shortname)
    ELSE IF ~IsNull(byName) /\ MapHas(byName, shortname)
    THEN MapGet(byName, shortname)
    ELSE Undefined

\* findSpec, the two index lookups: specsIndex?.has(shortname), then
\* seriesIndex?.has(shortname); Undefined when neither has it
IndexLookup(byName, bySeries, shortname) ==
    IF ~IsNull(byName) /\ MapHas(byName, shortname)
    THEN MapGet(byName, shortname)
    ELSE IF ~IsNull(bySeries) /\ MapHas(bySeries, shortname)
    THEN MapGet(bySeries, shortname)
    ELSE Undefined

PartialMatches(spec, shortname) ==
    \/ Includes(spec.shortname, shortname)
    \/ Includes(shortname, spec.shortname)

\* a faulty variant of PartialMatch: the last match, not the first
PartialMatchLast(specs, shortname) ==
    IF \E i \in 1 .. Len(specs) : PartialMatches(specs[i], shortname)
    THEN LET last == CHOOSE i \in 1 .. Len(specs) :
                 /\ PartialMatches(specs[i], shortname)
                 /\ \A j \in (i + 1) .. Len(specs) :
                       ~PartialMatches(specs[j], shortname)
         IN  specs[last]
    ELSE Undefined

\* findSpec, the fallback: specs.find(s => ...)
PartialMatch(specs, shortname) ==
    IF \E i \in 1 .. Len(specs) : PartialMatches(specs[i], shortname)
    THEN LET first == CHOOSE i \in 1 .. Len(specs) :
                 /\ PartialMatches(specs[i], shortname)
                 /\ \A j \in 1 .. (i - 1) : ~PartialMatches(specs[j], shortname)
         IN  specs[first]
    ELSE Undefined

\* what the finished call hands to its caller: findSpec the record (or
\* undefined), quickFindByShortname a search result (or null)
Found(op, spec) ==
    IF op # "quickFind"
    THEN [status |-> "ok", value |-> spec]
    ELSE IF IsUndefined(spec)
    THEN [status |-> "ok", value |-> Null]
    ELSE [status |-> "ok",
          value |-> [summary |-> toSpecSummary(spec),
                     matchType |-> "shortname",
                     score |-> EXACT_SHORTNAME]]

Failed == [status |-> "error"]

\* the functions that await findSpec: findSpec itself when called by a
\* client, quickFindByShortname, getSpec and getWebIDL
ResolverOps == {"findSpec", "quickFind", "getSpec", "getWebIDL"}

\* where the call goes on once findSpec has returned: back to the client,
\* or on in the tool that awaited findSpec
AfterFindSpec(op) ==
    IF op \in {"findSpec", "quickFind"} THEN "done" ELSE "resolved"

\* findSpec is entered: await loadSpecs()
CallFindSpec(c, id) ==
    /\ callers[c].op = "idle"
    /\ Load(c, <<"specs">>, [IdleCall EXCEPT !.op = "findSpec", !.id = id,
                                !.kind = "specs", !.epoch = epoch])
    /\ UNCHANGED <<webSpecs, webref, indexVars, epoch, preload, mainVars>>

\* quickFindByShortname is entered: await import('../data/loader.js')
CallQuickFind(c, id) ==
    /\ callers[c].op = "idle"
    /\ callers' = [callers EXCEPT ![c] =
          [IdleCall EXCEPT !.op = "quickFind", !.pc = "import", !.id = id,
                           !.kind = "specs", !.epoch = epoch]]
    /\ UNCHANGED <<webSpecs, webref, promises, cacheVars, indexVars, epoch, started,
                   loadCalled, preload, mainVars>>

\* quickFindByShortname, after the import: await findSpec(shortname)
QuickFindImported(c) ==
    /\ callers[c].op = "quickFind"
    /\ callers[c].pc = "import"
    /\ Load(c, <<"specs">>, callers[c])
    /\ UNCHANGED <<webSpecs, webref, indexVars, epoch, preload, mainVars>>

\* findSpec after an await: the promise was rejected, and the error goes
\* to the caller (through the tool that called findSpec)
FindSpecThrows(c) ==
    /\ callers[c].op \in ResolverOps
    /\ callers[c].kind = "specs"
    /\ callers[c].pc \in {"await", "await2"}
    /\ Rejected(callers[c].awaiting[1])
    /\ callers' = [callers EXCEPT ![c].pc = "done", ![c].result = Failed]
    /\ UNCHANGED <<webSpecs, webref, promises, cacheVars, indexVars, epoch,
                   started, loadCalled, preload, mainVars>>

\* findSpec after its first await: one of the indices has the identifier
FindSpecIndexed(c) ==
    LET spec == IndexLookup(specsIndex, seriesIndex, callers[c].id)
    IN  /\ callers[c].op \in ResolverOps
        /\ callers[c].kind = "specs"
        /\ callers[c].pc = "await"
        /\ Fulfilled(callers[c].awaiting[1])
        /\ ~IsUndefined(spec)
        /\ callers' = [callers EXCEPT ![c].pc = AfterFindSpec(callers[c].op),
                                      ![c].result = Found(callers[c].op, spec)]
        /\ UNCHANGED <<webSpecs, webref, promises, cacheVars, indexVars, epoch,
                       started, loadCalled, preload, mainVars>>

\* findSpec after its first await: no index has the identifier, and
\* loadSpecs is called and awaited once more
FindSpecFallback(c) ==
    LET spec == IndexLookup(specsIndex, seriesIndex, callers[c].id)
        after == LoadAll(<<"specs">>, promises, Cache, started)
    IN  /\ callers[c].op \in ResolverOps
        /\ callers[c].kind = "specs"
        /\ callers[c].pc = "await"
        /\ Fulfilled(callers[c].awaiting[1])
        /\ IsUndefined(spec)
        /\ SetCache(after.cache)
        /\ started' = after.started
        /\ callers' = [callers EXCEPT ![c].pc = "await2",
                                      ![c].awaiting = <<after.cache["specs"]>>]
        /\ promises' = Collect(after.promises, after.cache, callers')
        /\ loadCalled' = TRUE
        /\ UNCHANGED <<webSpecs, webref, indexVars, epoch, preload, mainVars>>

\* findSpec after its second await: the first partial match, or undefined
FindSpecScanned(c) ==
    /\ callers[c].op \in ResolverOps
    /\ callers[c].kind = "specs"
    /\ callers[c].pc = "await2"
    /\ Fulfilled(callers[c].awaiting[1])
    /\ callers' = [callers EXCEPT ![c].pc = AfterFindSpec(callers[c].op),
          ![c].result = Found(callers[c].op,
                              PartialMatch(webSpecs, callers[c].id))]
    /\ UNCHANGED <<webSpecs, webref, promises, cacheVars, indexVars, epoch,
                   started, loadCalled, preload, mainVars>>

\* ------------------------------------------------------------------------
\* main (the server's entry point) and the requests it serves
\* ------------------------------------------------------------------------

EXIT_FAILURE == 1

\* a faulty variant of MayConnect: the transport is connected without
\* waiting for preloadAll
MayConnectAtOnce(outcome) == TRUE

\* main connects the transport once `await preloadAll()` has returned
MayConnect(outcome) == outcome = "ok"

\* main is entered: await preloadAll()
MainStart ==
    /\ mainPc = "init"
    /\ Load(Main, LoadOrder, [IdleCall EXCEPT !.op = "preloadAll",
                                              !.epoch = epoch])
    /\ mainPc' = "preloading"
    /\ preloadCalls' = preloadCalls + 1
    /\ UNCHANGED <<webSpecs, webref, indexVars, epoch, preload, exitCode>>

\* preloadAll has returned: await server.connect(transport)
MainPreloaded ==
    /\ mainPc = "preloading"
    /\ MayConnect(AllSettlement(callers[Main].awaiting))
    /\ callers' = [callers EXCEPT ![Main].pc = "done",
                                  ![Main].result = [status |-> "ok"]]
    /\ preload' = [done |-> TRUE, clean |-> TRUE]
    /\ mainPc' = "connecting"
    /\ UNCHANGED <<webSpecs, webref, promises, cacheVars, indexVars, epoch, started,
                   loadCalled, preloadCalls, exitCode>>

\* preloadAll has thrown: main().catch logs the error and exits
MainPreloadFailed ==
    /\ mainPc = "preloading"
    /\ AllSettlement(callers[Main].awaiting) = "error"
    /\ callers' = [callers EXCEPT ![Main].pc = "done",
                                  ![Main].result = [status |-> "error"]]
    /\ mainPc' = "exited"
    /\ exitCode' = EXIT_FAILURE
    /\ UNCHANGED <<webSpecs, webref, promises, cacheVars, indexVars, epoch, started,
                   loadCalled, preload, preloadCalls>>

\* server.connect has returned: the server answers requests from now on
MainConnected ==
    /\ mainPc = "connecting"
    /\ mainPc' = "running"
    /\ UNCHANGED <<webSpecs, webref, promises, cacheVars, indexVars, callers, epoch,
                   started, loadCalled, preload, preloadCalls, exitCode>>

\* server.connect has thrown: main().catch logs the error and exits
MainConnectFailed ==
    /\ mainPc = "connecting"
    /\ mainPc' = "exited"
    /\ exitCode' = EXIT_FAILURE
    /\ UNCHANGED <<webSpecs, webref, promises, cacheVars, indexVars, callers, epoch,
                   started, loadCalled, preload, preloadCalls>>

\* a tool request is accepted from the transport; its handler calls a load
\* function or the resolver
Request(c) ==
    /\ mainPc = "running"
    /\ \/ \E k \in Kinds : CallLoad(c, k)
       \/ \E id \in ExampleIdentifiers : CallFindSpec(c, id)

\* ------------------------------------------------------------------------
\* Text: case conversion and word splitting
\* ------------------------------------------------------------------------

\* the letters of the texts that are searched, a blank, and the sharp s,
\* whose upper-case form is two letters long
LowerLetters == {"a", "b", "s"}
Blank == " "
SharpS == "ß"

\* String.prototype.toLowerCase, one character at a time
LowerChar(ch) ==
    CASE ch = "A" -> <<"a">>
      [] ch = "B" -> <<"b">>
      [] ch = "S" -> <<"s">>
      [] OTHER -> <<ch>>

\* String.prototype.toUpperCase, one character at a time
UpperChar(ch) ==
    CASE ch = "a" -> <<"A">>
      [] ch = "b" -> <<"B">>
      [] ch = "s" -> <<"S">>
      [] ch = SharpS -> <<"S", "S">>
      [] OTHER -> <<ch>>

RECURSIVE toLowerCase(_)
toLowerCase(s) ==
    IF s = << >> THEN << >> ELSE LowerChar(Head(s)) \o toLowerCase(Tail(s))

RECURSIVE toUpperCase(_)
toUpperCase(s) ==
    IF s = << >> THEN << >> ELSE UpperChar(Head(s)) \o toUpperCase(Tail(s))

\* s.split(/\s+/): the pieces of s between runs of blanks, the empty
\* pieces before a leading and after a trailing run included
RECURSIVE SplitFrom(_, _, _, _)
SplitFrom(s, i, piece, pieces) ==
    IF i > Len(s) THEN Append(pieces, piece)
    ELSE IF s[i] = Blank
    THEN IF i > 1 /\ s[i - 1] = Blank
         THEN SplitFrom(s, i + 1, piece, pieces)
         ELSE SplitFrom(s, i + 1, << >>, Append(pieces, piece))
    ELSE SplitFrom(s, i + 1, Append(piece, s[i]), pieces)

Split(s) == SplitFrom(s, 1, << >>, << >>)

\* array.filter(keep).length
CountOf(xs, keep(_)) == Cardinality({i \in DOMAIN xs : keep(xs[i])})

\* ------------------------------------------------------------------------
\* searchSpecs
\* ------------------------------------------------------------------------

DEFAULT_SEARCH_LIMIT == 20
EXACT_TITLE == 90
SHORTNAME_CONTAINS == 80
QUERY_CONTAINS_SHORTNAME == 70
TITLE_CONTAINS == 60
ALL_WORDS_MATCH == 50
PARTIAL_WORDS_BASE == 30
PARTIAL_WORDS_BONUS == 20
ABSTRACT_CONTAINS == 25
ABSTRACT_PARTIAL_BASE == 15
ABSTRACT_PARTIAL_BONUS == 10
MIN_SEARCH_WORD_LENGTH == 2
MIN_SHORTNAME_LENGTH_FOR_REVERSE_MATCH == 3

\* matchedWords.length >= queryWords.length * MIN_ABSTRACT_WORD_MATCH_RATIO,
\* the ratio being one half
MeetsAbstractRatio(matched, total) == 2 * matched >= total

\* (matched / total) * bonus; the word counts of Queries (1, 2 and 5)
\* divide both bonuses, so that the quotient is the exact value
Bonus(matched, total, bonus) == (matched * bonus) \div total

\* a record of the collection with the texts that searchSpecs reads; a
\* record without abstract has the empty text there (both are falsy)
SearchableSpec(shortname, title, abstract) ==
    [shortname |-> shortname, series |-> NoSeries, title |-> title,
     abstract |-> abstract]

\* lowerQuery.split(WORD_SPLIT_REGEX).filter(w => w.length > 2)
QueryWords(lowerQuery) ==
    SelectSeq(Split(lowerQuery), LAMBDA w : Len(w) > MIN_SEARCH_WORD_LENGTH)

NoMatch == [score |-> 0, matchType |-> "title"]

\* a faulty variant of ShortnameScore: a shortname that the query
\* contains is not looked at
ShortnameScoreNoReverse(lowerShortname, lowerQuery) ==
    IF lowerShortname = lowerQuery
    THEN [score |-> EXACT_SHORTNAME, matchType |-> "shortname"]
    ELSE IF Includes(lowerShortname, lowerQuery)
    THEN [score |-> SHORTNAME_CONTAINS, matchType |-> "shortname"]
    ELSE NoMatch

\* a faulty variant of ShortnameScore: a shortname that the query
\* contains is worth less than a title that contains the query
ShortnameScoreLowReverse(lowerShortname, lowerQuery) ==
    IF lowerShortname = lowerQuery
    THEN [score |-> EXACT_SHORTNAME, matchType |-> "shortname"]
    ELSE IF Includes(lowerShortname, lowerQuery)
    THEN [score |-> SHORTNAME_CONTAINS, matchType |-> "shortname"]
    ELSE IF /\ Len(lowerShortname) > MIN_SHORTNAME_LENGTH_FOR_REVERSE_MATCH
            /\ Includes(lowerQuery, lowerShortname)
    THEN [score |-> ALL_WORDS_MATCH, matchType |-> "shortname"]
    ELSE NoMatch

\* the first three branches of the loop body: the shortname
ShortnameScore(lowerShortname, lowerQuery) ==
    IF lowerShortname = lowerQuery
    THEN [score |-> EXACT_SHORTNAME, matchType |-> "shortname"]
    ELSE IF Includes(lowerShortname, lowerQuery)
    THEN [score |-> SHORTNAME_CONTAINS, matchType |-> "shortname"]
    ELSE IF /\ Len(lowerShortname) > MIN_SHORTNAME_LENGTH_FOR_REVERSE_MATCH
            /\ Includes(lowerQuery, lowerShortname)
    THEN [score |-> QUERY_CONTAINS_SHORTNAME, matchType |-> "shortname"]
    ELSE NoMatch

\* the next branches: the title, whole and then word by word
TitleScore(lowerTitle, lowerQuery, queryWords) ==
    LET matched == CountOf(queryWords, LAMBDA w : Includes(lowerTitle, w))
        total == Len(queryWords)
    IN  IF lowerTitle = lowerQuery
        THEN [score |-> EXACT_TITLE, matchType |-> "title"]
        ELSE IF Includes(lowerTitle, lowerQuery)
        THEN [score |-> TITLE_CONTAINS, matchType |-> "title"]
        ELSE IF total > 0 /\ matched = total
        THEN [score |-> ALL_WORDS_MATCH, matchType |-> "title"]
        ELSE IF total > 0 /\ matched > 0
        THEN [score |-> PARTIAL_WORDS_BASE
                          + Bonus(matched, total, PARTIAL_WORDS_BONUS),
              matchType |-> "title"]
        ELSE NoMatch

\* a faulty variant of AbstractScore: any share of the words is enough
AbstractScoreAnyRatio(abstract, lowerQuery, queryWords) ==
    LET lowerAbstract == toLowerCase(abstract)
        matched == CountOf(queryWords, LAMBDA w : Includes(lowerAbstract, w))
        total == Len(queryWords)
    IN  IF abstract = << >> THEN NoMatch
        ELSE IF Includes(lowerAbstract, lowerQuery)
        THEN [score |-> ABSTRACT_CONTAINS, matchType |-> "description"]
        ELSE IF total > 0 /\ matched > 0
        THEN [score |-> ABSTRACT_PARTIAL_BASE
                          + Bonus(matched, total, ABSTRACT_PARTIAL_BONUS),
              matchType |-> "description"]
        ELSE NoMatch

\* if (score === 0 && spec.abstract) { ... }: the abstract
AbstractScore(abstract, lowerQuery, queryWords) ==
    LET lowerAbstract == toLowerCase(abstract)
        matched == CountOf(queryWords, LAMBDA w : Includes(lowerAbstract, w))
        total == Len(queryWords)
    IN  IF abstract = << >> THEN NoMatch
        ELSE IF Includes(lowerAbstract, lowerQuery)
        THEN [score |-> ABSTRACT_CONTAINS, matchType |-> "description"]
        ELSE IF total > 0 /\ MeetsAbstractRatio(matched, total)
        THEN [score |-> ABSTRACT_PARTIAL_BASE
                          + Bonus(matched, total, ABSTRACT_PARTIAL_BONUS),
              matchType |-> "description"]
        ELSE NoMatch

\* the body of the loop over the records: score and match type of one
ScoreOf(spec, lowerQuery, queryWords) ==
    LET byShortname == ShortnameScore(toLowerCase(spec.shortname), lowerQuery)
        byTitle == TitleScore(toLowerCase(spec.title), lowerQuery, queryWords)
    IN  IF byShortname.score # 0 THEN byShortname
        ELSE IF byTitle.score # 0 THEN byTitle
        ELSE AbstractScore(spec.abstract, lowerQuery, queryWords)

\* the loop: the records with a score above 0, in the order of the
\* collection
RECURSIVE ScoredFrom(_, _, _, _)
ScoredFrom(specs, i, lowerQuery, queryWords) ==
    IF i > Len(specs) THEN << >>
    ELSE LET scored == ScoreOf(specs[i], lowerQuery, queryWords)
             rest == ScoredFrom(specs, i + 1, lowerQuery, queryWords)
         IN  IF scored.score > 0
             THEN <<[summary |-> toSpecSummary(specs[i]),
                     matchType |-> scored.matchType,
                     score |-> scored.score]>> \o rest
             ELSE rest

\* a faulty variant of SortByScore: the results are left as pushed
Unsorted(results) == results

\* results.sort((a, b) => b.score - a.score): a stable sort, each result
\* is put behind the results that score as much or more
RECURSIVE SortByScore(_)
SortByScore(results) ==
    IF results = << >> THEN << >>
    ELSE LET sorted == SortByScore(SubSeq(results, 1, Len(results) - 1))
             last == results[Len(results)]
             ahead == Cardinality({i \in DOMAIN sorted :
                          \A j \in 1 .. i : sorted[j].score >= last.score})
         IN  SubSeq(sorted, 1, ahead) \o <<last>>
                \o SubSeq(sorted, ahead + 1, Len(sorted))

\* a faulty variant of Slice: one result too many
SliceOneMore(results, limit) ==
    SubSeq(results, 1, IF limit + 1 < Len(results) THEN limit + 1
                       ELSE Len(results))

\* results.slice(0, limit), for a limit that is not negative
Slice(results, limit) ==
    SubSeq(results, 1, IF limit < Len(results) THEN limit ELSE Len(results))

\* limit: number = DEFAULT_SEARCH_LIMIT
LimitOrDefault(limit) ==
    IF IsUndefined(limit) THEN DEFAULT_SEARCH_LIMIT ELSE limit.n

Ranked(specs, query) ==
    LET lowerQuery == toLowerCase(query)
    IN  SortByScore(ScoredFrom(specs, 1, lowerQuery, QueryWords(lowerQuery)))

\* what searchSpecs returns once loadSpecs has given it the collection
SearchResults(specs, query, limit) ==
    Slice(Ranked(specs, query), LimitOrDefault(limit))

\* the words of the texts
wAbba == <<"a", "b", "b", "a">>
wBab == <<"b", "a", "b">>
wSas == <<"s", "a", "s">>
wSab == <<"s", "a", "b">>
wSss == <<"s", "s", "s">>
wBbb == <<"b", "b", "b">>
wAaa == <<"a", "a", "a">>
wAba == <<"a", "b", "a">>
Sp == <<Blank>>
Cap(w) == UpperChar(Head(w)) \o Tail(w)

\* the records that are searched: shortname, title, abstract
SearchRecords ==
    { SearchableSpec(wAbba, Cap(wAbba) \o Sp \o Cap(wBab), << >>),
      SearchableSpec(wSas, Cap(wAbba) \o Sp \o Cap(wBab), wBbb),
      SearchableSpec(wBab, Cap(wSas), Cap(wAbba) \o Sp \o wBab \o Sp \o wSss),
      SearchableSpec(wSab, Cap(wBab) \o Sp \o Cap(wAbba) \o Sp \o Cap(wBab),
                     << >>) }

\* the collections that are searched: up to MaxSpecs of the records,
\* in any order
SearchCollections ==
    {specs \in SeqsUpTo(SearchRecords, MaxSpecs) :
        \A i, j \in DOMAIN specs : specs[i] = specs[j] => i = j}

\* the queries: of one, two and five words, in lower, upper and mixed
\* case, the empty query, and the sharp s with its upper-case form
Queries ==
    { wAbba, toUpperCase(wAbba), Cap(wAbba),
      <<"b", "b">>,
      wAbba \o Sp \o wBab, toUpperCase(wAbba \o Sp \o wBab),
      wBab \o Sp \o wAbba,
      wBab \o Sp \o wSss,
      wBab \o Sp \o wBbb,
      wSss \o Sp \o wAaa \o Sp \o wBbb \o Sp \o wAba \o Sp \o wBab,
      <<SharpS>>, <<"S", "S">>, <<"s", "s">>,
      << >> }

\* the limits: none given, or a number from 0 on
Limit(n) == [n |-> n]
Limits == {Undefined} \cup {Limit(n) : n \in 0 .. MaxSpecs}

\* searchSpecs is entered: await loadSpecs()
CallSearchSpecs(c, query, limit) ==
    /\ callers[c].op = "idle"
    /\ Load(c, <<"specs">>,
            [IdleCall EXCEPT !.op = "searchSpecs", !.kind = "specs",
                             !.id = [query |-> query, limit |-> limit],
                             !.epoch = epoch])
    /\ UNCHANGED <<webSpecs, webref, indexVars, epoch, preload, mainVars>>

\* searchSpecs after its await: the records are scored, sorted and cut
SearchSpecsResumed(c) ==
    /\ callers[c].op = "searchSpecs"
    /\ callers[c].pc = "await"
    /\ Fulfilled(callers[c].awaiting[1])
    /\ callers' = [callers EXCEPT ![c].pc = "done",
          ![c].result = [status |-> "ok",
                         value |-> SearchResults(webSpecs, callers[c].id.query,
                                                 callers[c].id.limit)]]
    /\ UNCHANGED <<webSpecs, webref, promises, cacheVars, indexVars, epoch, started,
                   loadCalled, preload, mainVars>>

\* searchSpecs after its await: loadSpecs was rejected
SearchSpecsThrows(c) ==
    /\ callers[c].op = "searchSpecs"
    /\ callers[c].pc = "await"
    /\ Rejected(callers[c].awaiting[1])
    /\ callers' = [callers EXCEPT ![c].pc = "done", ![c].result = Failed]
    /\ UNCHANGED <<webSpecs, webref, promises, cacheVars, indexVars, epoch, started,
                   loadCalled, preload, mainVars>>

\* ------------------------------------------------------------------------
\* The data of the @webref packages as the tools read it
\* ------------------------------------------------------------------------

\* a property name that every plain object inherits from Object.prototype
InheritedName == <<"c", "o", "n", "s", "t", "r", "u", "c", "t", "o", "r">>
\* the value of an inherited property: truthy, without the properties of
\* the data
Inherited == [inherited |-> TRUE]

\* the object that the awaited load function returned, as the sequence of
\* its keys: the data of the package, or the empty object of a load that
\* degraded
DataOf(p) ==
    IF promises[p].value = EmptyCollection THEN << >> ELSE webref[p.kind]

HasOwn(keys, name) == \E i \in DOMAIN keys : keys[i] = name

\* the text of the WebIDL file of a key, and the element table of a key
IdlText(key) == [idl |-> key]
ElementSpecData(key) ==
    [spec |-> key, elements |-> <<[name |-> key, interface |-> key]>>]

\* object[name] for a plain object with the given own keys
Get(keys, name, valueOf(_)) ==
    IF HasOwn(keys, name) THEN valueOf(name)
    ELSE IF name = InheritedName THEN Inherited
    ELSE Undefined

\* key.includes(shortname) || shortname.includes(key)
Overlaps(key, shortname) == Includes(key, shortname) \/ Includes(shortname, key)

\* array.filter(keep)
Filter(xs, keep(_)) == SelectSeq(xs, keep)

\* array.slice(0, n)
Take(xs, n) == SubSeq(xs, 1, IF n < Len(xs) THEN n ELSE Len(xs))

\* a record of the collection with the fields that the tools read
ToolSpec(shortname, title, series) ==
    [shortname |-> shortname, series |-> series, title |-> title,
     abstract |-> << >>]

\* ------------------------------------------------------------------------
\* Errors
\* ------------------------------------------------------------------------

MAX_SUGGESTIONS == 5
MAX_AVAILABLE_SPECS_DISPLAY == 10

\* the messages are kept as their parts: which sentence, about which
\* identifier, listing what, with or without the trailing dots
Message(sentence, about, listed, dots) ==
    [sentence |-> sentence, about |-> about, listed |-> listed, dots |-> dots]

Thrown(error) == [status |-> "error", error |-> error]

\* new Error(`Specification "${shortname}" not found.` + ...)
SpecNotFound(shortname, suggestions) ==
    [name |-> "Error",
     message |-> Message("Specification not found", shortname, suggestions,
                         FALSE)]

\* an array of names, as an optional argument that may also be undefined
NameList(list) == [names |-> list]

\* new W3CMCPError(message)
W3CMCPError(sentence) ==
    [name |-> "W3CMCPError", message |-> Message(sentence, << >>, << >>, FALSE)]

\* new SpecNotFoundError(shortname, suggestions)
SpecNotFoundError(shortname, suggestions) ==
    LET some == ~IsUndefined(suggestions) /\ Len(suggestions.names) > 0
    IN  [name |-> "SpecNotFoundError",
         suggestions |-> suggestions,
         message |-> IF some
                     THEN Message("Specification not found, did you mean",
                                  shortname, suggestions.names, FALSE)
                     ELSE Message("Specification not found", shortname, << >>,
                                  FALSE)]

\* new WebIDLNotFoundError(shortname, suggestions, multipleMatch)
WebIDLNotFoundError(shortname, suggestions, multipleMatch) ==
    LET some == ~IsUndefined(suggestions) /\ Len(suggestions.names) > 0
    IN  [name |-> "WebIDLNotFoundError",
         suggestions |-> suggestions,
         message |-> IF multipleMatch /\ some
                     THEN Message("Multiple WebIDL matches found", shortname,
                                  suggestions.names, FALSE)
                     ELSE IF some
                     THEN Message("WebIDL not found, might match", shortname,
                                  suggestions.names, FALSE)
                     ELSE Message("WebIDL not found", shortname, << >>,
                                  FALSE)]

\* new ElementsNotFoundError(spec, availableSpecs)
ElementsNotFoundError(spec, availableSpecs) ==
    LET displaySpecs == Take(availableSpecs, MAX_AVAILABLE_SPECS_DISPLAY)
        hasMore == Len(availableSpecs) > MAX_AVAILABLE_SPECS_DISPLAY
    IN  [name |-> "ElementsNotFoundError",
         message |-> IF Len(displaySpecs) > 0
                     THEN Message("Elements data not found", spec,
                                  displaySpecs, hasMore)
                     ELSE Message("Elements data not found", spec, << >>,
                                  FALSE)]

\* for (const elem of specData.elements) where specData.elements is
\* undefined
NotIterable == [name |-> "TypeError",
                message |-> Message("not iterable", << >>, << >>, FALSE)]

\* the error of a rejected load of the specification collection
LoadError == [name |-> "Error",
              message |-> Message("load failed", << >>, << >>, FALSE)]

\* the error that a finished call threw
ErrorOf(result) ==
    IF "error" \in DOMAIN result THEN result.error ELSE LoadError

\* ------------------------------------------------------------------------
\* getSpec
\* ------------------------------------------------------------------------

\* a faulty variant of SuggestedFor: every near record is suggested
SuggestedForAll(shortname) ==
    LET near(s) == \/ Includes(s.shortname, shortname)
                   \/ Includes(shortname, s.shortname)
                   \/ Includes(toLowerCase(s.title), toLowerCase(shortname))
    IN  Filter(webSpecs, near)

\* the records suggested for an identifier that was not found
SuggestedFor(shortname) ==
    LET near(s) == \/ Includes(s.shortname, shortname)
                   \/ Includes(shortname, s.shortname)
                   \/ Includes(toLowerCase(s.title), toLowerCase(shortname))
    IN  Take(Filter(webSpecs, near), MAX_SUGGESTIONS)

ShortnamesOf(specs) == [i \in DOMAIN specs |-> specs[i].shortname]

\* getSpec is entered: await findSpec(shortname)
CallGetSpec(c, id) ==
    /\ callers[c].op = "idle"
    /\ Load(c, <<"specs">>, [IdleCall EXCEPT !.op = "getSpec", !.id = id,
                                !.kind = "specs", !.epoch = epoch])
    /\ UNCHANGED <<webSpecs, webref, indexVars, epoch, preload, mainVars>>

\* findSpec has returned a record: getSpec returns its detail
GetSpecFound(c) ==
    /\ callers[c].op = "getSpec"
    /\ callers[c].pc = "resolved"
    /\ ~IsUndefined(callers[c].result.value)
    /\ callers' = [callers EXCEPT ![c].pc = "done"]
    /\ UNCHANGED <<webSpecs, webref, promises, cacheVars, indexVars, epoch,
                   started, loadCalled, preload, mainVars>>

\* findSpec has returned undefined: await loadSpecs() for the suggestions
GetSpecMissed(c) ==
    /\ callers[c].op = "getSpec"
    /\ callers[c].pc = "resolved"
    /\ IsUndefined(callers[c].result.value)
    /\ Load(c, <<"specs">>, [callers[c] EXCEPT !.kind = "suggestions"])
    /\ UNCHANGED <<webSpecs, webref, indexVars, epoch, preload, mainVars>>

\* getSpec throws the error with the suggestions (or the error of the load)
GetSpecNotFound(c) ==
    /\ callers[c].op = "getSpec"
    /\ callers[c].kind = "suggestions"
    /\ callers[c].pc = "await"
    /\ Settled(callers[c].awaiting[1])
    /\ callers' = [callers EXCEPT ![c].pc = "done",
          ![c].result =
             IF Rejected(callers[c].awaiting[1]) THEN Failed
             ELSE Thrown(SpecNotFound(callers[c].id,
                            ShortnamesOf(SuggestedFor(callers[c].id))))]
    /\ UNCHANGED <<webSpecs, webref, promises, cacheVars, indexVars, epoch,
                   started, loadCalled, preload, mainVars>>

\* ------------------------------------------------------------------------
\* getWebIDL
\* ------------------------------------------------------------------------

\* getWebIDL is entered: await loadWebIDLRaw()
CallGetWebIDL(c, id) ==
    /\ callers[c].op = "idle"
    /\ Load(c, <<"idl">>, [IdleCall EXCEPT !.op = "getWebIDL", !.id = id,
                              !.kind = "idl", !.epoch = epoch])
    /\ UNCHANGED <<webSpecs, webref, indexVars, epoch, preload, mainVars>>

\* the WebIDL data is there and has the identifier as a key
GetWebIDLExact(c) ==
    LET idlData == DataOf(callers[c].awaiting[1])
        idl == Get(idlData, callers[c].id, IdlText)
    IN  /\ callers[c].op = "getWebIDL"
        /\ callers[c].kind = "idl"
        /\ callers[c].pc = "await"
        /\ Settled(callers[c].awaiting[1])
        /\ ~IsUndefined(idl)
        /\ callers' = [callers EXCEPT ![c].pc = "done",
                          ![c].locals = idlData,
                          ![c].result = [status |-> "ok", value |-> idl]]
        /\ UNCHANGED <<webSpecs, webref, promises, cacheVars, indexVars, epoch,
                       started, loadCalled, preload, mainVars>>

\* the WebIDL data has no such key: await findSpec(shortname)
GetWebIDLResolve(c) ==
    LET idlData == DataOf(callers[c].awaiting[1])
    IN  /\ callers[c].op = "getWebIDL"
        /\ callers[c].kind = "idl"
        /\ callers[c].pc = "await"
        /\ Settled(callers[c].awaiting[1])
        /\ IsUndefined(Get(idlData, callers[c].id, IdlText))
        /\ Load(c, <<"specs">>, [callers[c] EXCEPT !.kind = "specs",
                                                   !.locals = idlData])
        /\ UNCHANGED <<webSpecs, webref, indexVars, epoch, preload, mainVars>>

\* a faulty variant of MatchingKeys: the first overlapping key only
MatchingKeysFirst(idlData, shortname) ==
    Take(Filter(idlData, LAMBDA key : Overlaps(key, shortname)), 1)

\* Object.keys(idlData).filter(key => ...)
MatchingKeys(idlData, shortname) ==
    Filter(idlData, LAMBDA key : Overlaps(key, shortname))

\* the WebIDL text that the record returned by findSpec leads to: under
\* its shortname, else under its series alias; undefined if neither
ResolvedIdl(idlData, spec) ==
    IF IsUndefined(spec) THEN Undefined
    ELSE IF ~IsUndefined(Get(idlData, spec.shortname, IdlText))
    THEN Get(idlData, spec.shortname, IdlText)
    ELSE IF HasSeries(spec)
    THEN Get(idlData, spec.series.shortname, IdlText)
    ELSE Undefined

\* findSpec has returned: the text of the record or of its series, else
\* the text of the one overlapping key, else the error that lists the
\* overlapping keys
GetWebIDLResolved(c) ==
    LET idlData == callers[c].locals
        idl == ResolvedIdl(idlData, callers[c].result.value)
        matchingKeys == MatchingKeys(idlData, callers[c].id)
    IN  /\ callers[c].op = "getWebIDL"
        /\ callers[c].pc = "resolved"
        /\ ~IsUndefined(idl) \/ Len(matchingKeys) >= 1
        /\ callers' = [callers EXCEPT ![c].pc = "done",
              ![c].result =
                 IF ~IsUndefined(idl) THEN [status |-> "ok", value |-> idl]
                 ELSE IF Len(matchingKeys) = 1
                 THEN [status |-> "ok", value |-> IdlText(matchingKeys[1])]
                 ELSE Thrown(WebIDLNotFoundError(callers[c].id,
                                                 NameList(matchingKeys), TRUE))]
        /\ UNCHANGED <<webSpecs, webref, promises, cacheVars, indexVars, epoch,
                       started, loadCalled, preload, mainVars>>

\* findSpec has returned and nothing matched: await loadSpecs() for the
\* suggestions
GetWebIDLMissed(c) ==
    LET idlData == callers[c].locals
    IN  /\ callers[c].op = "getWebIDL"
        /\ callers[c].pc = "resolved"
        /\ IsUndefined(ResolvedIdl(idlData, callers[c].result.value))
        /\ Len(MatchingKeys(idlData, callers[c].id)) = 0
        /\ Load(c, <<"specs">>, [callers[c] EXCEPT !.kind = "suggestions"])
        /\ UNCHANGED <<webSpecs, webref, indexVars, epoch, preload, mainVars>>

\* getWebIDL throws the error with the suggestions: the records that have
\* WebIDL among those suggested for the identifier
GetWebIDLNotFound(c) ==
    LET idlData == callers[c].locals
        withIdl(s) == ~IsUndefined(Get(idlData, s.shortname, IdlText))
        near(s) == \/ Includes(s.shortname, callers[c].id)
                   \/ Includes(callers[c].id, s.shortname)
                   \/ Includes(toLowerCase(s.title), toLowerCase(callers[c].id))
        suggestions == ShortnamesOf(Take(Filter(Filter(webSpecs, withIdl), near),
                                         MAX_SUGGESTIONS))
    IN  /\ callers[c].op = "getWebIDL"
        /\ callers[c].kind = "suggestions"
        /\ callers[c].pc = "await"
        /\ Settled(callers[c].awaiting[1])
        /\ callers' = [callers EXCEPT ![c].pc = "done",
              ![c].result =
                 IF Rejected(callers[c].awaiting[1]) THEN Failed
                 ELSE Thrown(WebIDLNotFoundError(callers[c].id,
                                IF Len(suggestions) > 0
                                THEN NameList(suggestions)
                                ELSE Undefined, FALSE))]
        /\ UNCHANGED <<webSpecs, webref, promises, cacheVars, indexVars, epoch,
                       started, loadCalled, preload, mainVars>>

\* ------------------------------------------------------------------------
\* getElements
\* ------------------------------------------------------------------------

\* the elements of the tables of the keys, each with the spec it is from
RECURSIVE ElementsFrom(_, _)
ElementsFrom(keys, i) ==
    IF i > Len(keys) THEN << >>
    ELSE [j \in DOMAIN ElementSpecData(keys[i]).elements |->
             [name |-> ElementSpecData(keys[i]).elements[j].name,
              interface |-> ElementSpecData(keys[i]).elements[j].interface,
              spec |-> keys[i]]]
         \o ElementsFrom(keys, i + 1)

\* a.localeCompare(b) < 0 for names of one repeated letter
NameBefore(a, b) == Len(a) < Len(b)

\* elements.sort((a, b) => a.name.localeCompare(b.name)), a stable sort
RECURSIVE SortByName(_)
SortByName(elements) ==
    IF elements = << >> THEN << >>
    ELSE LET sorted == SortByName(SubSeq(elements, 1, Len(elements) - 1))
             last == elements[Len(elements)]
             ahead == Cardinality({i \in DOMAIN sorted :
                          \A j \in 1 .. i : ~NameBefore(last.name, sorted[j].name)})
         IN  SubSeq(sorted, 1, ahead) \o <<last>>
                \o SubSeq(sorted, ahead + 1, Len(sorted))

\* what getElements returns or throws once loadElements has given it the
\* data
ElementsOutcome(elementsData, specShortname) ==
    LET specData == Get(elementsData, specShortname, ElementSpecData)
    IN  IF specShortname = << >>
        THEN [status |-> "ok",
              value |-> SortByName(ElementsFrom(elementsData, 1))]
        ELSE IF IsUndefined(specData)
        THEN Thrown(ElementsNotFoundError(specShortname, elementsData))
        ELSE IF "elements" \notin DOMAIN specData
        THEN Thrown(NotIterable)
        ELSE [status |-> "ok",
              value |-> SortByName(ElementsFrom(<<specShortname>>, 1))]

\* getElements is entered: await loadElements()
CallGetElements(c, id) ==
    /\ callers[c].op = "idle"
    /\ Load(c, <<"elements">>, [IdleCall EXCEPT !.op = "getElements",
                                   !.id = id, !.kind = "elements",
                                   !.epoch = epoch])
    /\ UNCHANGED <<webSpecs, webref, indexVars, epoch, preload, mainVars>>

\* getElements after its await
GetElementsLoaded(c) ==
    /\ callers[c].op = "getElements"
    /\ callers[c].pc = "await"
    /\ Settled(callers[c].awaiting[1])
    /\ callers' = [callers EXCEPT ![c].pc = "done",
          ![c].result = ElementsOutcome(DataOf(callers[c].awaiting[1]),
                                        callers[c].id)]
    /\ UNCHANGED <<webSpecs, webref, promises, cacheVars, indexVars, epoch,
                   started, loadCalled, preload, mainVars>>

\* ------------------------------------------------------------------------
\* The request handler of the server (CallToolRequestSchema)
\* ------------------------------------------------------------------------

MIN_VALID_SEARCH_LIMIT == 1
MAX_VALID_SEARCH_LIMIT == 100
MIN_VALID_LIST_LIMIT == 1
MAX_VALID_LIST_LIMIT == 500

\* the tools of the switch statement that are modelled
ToolNames == {"list_w3c_specs", "get_w3c_spec", "search_w3c_specs",
              "get_webidl", "get_html_elements"}

\* the argument bundle of a request; a field that is not given is undefined
Args(shortname, query, limit, spec) ==
    [shortname |-> shortname, query |-> query, limit |-> limit, spec |-> spec]
ToolRequest(name, args) == [name |-> name, args |-> args]

\* a string argument: the text is kept in a record, as numbers are
Str(text) == [text |-> text]
IsStr(x) == "text" \in DOMAIN x
IsNum(x) == "n" \in DOMAIN x

\* ------------------------------------------------------------------------
\* listSpecs
\* ------------------------------------------------------------------------

DEFAULT_LIST_LIMIT == 50

\* the options of listSpecs; an option that is not given is undefined
ListSpecsOptions(organization, keyword, category, limit) ==
    [organization |-> organization, keyword |-> keyword,
     category |-> category, limit |-> limit]

\* a record with the optional fields that listSpecs reads
ListableSpec(shortname, title, organization, categories) ==
    [shortname |-> shortname, series |-> NoSeries, title |-> title,
     abstract |-> << >>, organization |-> organization,
     categories |-> categories]

\* spec.organization, spec.categories: undefined for a record without
Field(spec, name) == IF name \in DOMAIN spec THEN spec[name] ELSE Undefined

\* if (option): a string that is given and is not empty
Truthy(option) == IsStr(option) /\ option.text # << >>

All == <<"a", "l", "l">>

\* spec.organization?.toUpperCase() === organization.toUpperCase()
MatchesOrganization(spec, organization) ==
    /\ IsStr(Field(spec, "organization"))
    /\ toUpperCase(Field(spec, "organization").text) = toUpperCase(organization)

\* a faulty variant of MatchesKeyword: the shortname is not looked at
MatchesKeywordInTitle(spec, keyword) ==
    Includes(toLowerCase(spec.title), toLowerCase(keyword))

\* the title or the shortname includes the keyword, all in lower case
MatchesKeyword(spec, keyword) ==
    \/ Includes(toLowerCase(spec.title), toLowerCase(keyword))
    \/ Includes(toLowerCase(spec.shortname), toLowerCase(keyword))

\* spec.categories?.some((cat) => cat.toLowerCase().includes(...))
MatchesCategory(spec, category) ==
    /\ ~IsUndefined(Field(spec, "categories"))
    /\ \E i \in DOMAIN Field(spec, "categories").names :
          Includes(toLowerCase(Field(spec, "categories").names[i]),
                   toLowerCase(category))

\* limit = 50
ListLimit(limit) == IF IsUndefined(limit) THEN DEFAULT_LIST_LIMIT ELSE limit.n

\* what listSpecs returns once loadSpecs has given it the collection: the
\* three filters one after the other, the cut, the summaries
ListedSpecs(specs, options) ==
    LET byOrganization ==
           IF Truthy(options.organization) /\ options.organization.text # All
           THEN Filter(specs, LAMBDA s :
                          MatchesOrganization(s, options.organization.text))
           ELSE specs
        byKeyword ==
           IF Truthy(options.keyword)
           THEN Filter(byOrganization, LAMBDA s :
                          MatchesKeyword(s, options.keyword.text))
           ELSE byOrganization
        byCategory ==
           IF Truthy(options.category)
           THEN Filter(byKeyword, LAMBDA s :
                          MatchesCategory(s, options.category.text))
           ELSE byKeyword
        cut == Slice(byCategory, ListLimit(options.limit))
    IN  [i \in DOMAIN cut |-> toSpecSummary(cut[i])]

\* listSpecs is entered: await loadSpecs()
CallListSpecs(c, options) ==
    /\ callers[c].op = "idle"
    /\ Load(c, <<"specs">>,
            [IdleCall EXCEPT !.op = "listSpecs", !.kind = "specs",
                             !.id = options, !.epoch = epoch])
    /\ UNCHANGED <<webSpecs, webref, indexVars, epoch, preload, mainVars>>

\* listSpecs after its await: the records are filtered and cut, or the
\* rejection of loadSpecs goes to the caller
ListSpecsResumed(c) ==
    /\ callers[c].op = "listSpecs"
    /\ callers[c].pc = "await"
    /\ Settled(callers[c].awaiting[1])
    /\ callers' = [callers EXCEPT ![c].pc = "done",
          ![c].result =
             IF Rejected(callers[c].awaiting[1]) THEN Failed
             ELSE [status |-> "ok",
                   value |-> ListedSpecs(webSpecs, callers[c].id)]]
    /\ UNCHANGED <<webSpecs, webref, promises, cacheVars, indexVars, epoch,
                   started, loadCalled, preload, mainVars>>

\* z.string().min(1)
RequiredString(x) == IsStr(x) /\ Len(x.text) >= 1
\* z.string().optional()
OptionalString(x) == IsStr(x) \/ IsUndefined(x)
\* a faulty variant of OptionalLimit: any number passes
OptionalLimitAny(x, min, max) == IsUndefined(x) \/ IsNum(x)

\* z.number().min(min).max(max).optional()
OptionalLimit(x, min, max) ==
    \/ IsUndefined(x)
    \/ IsNum(x) /\ x.n >= min /\ x.n <= max

\* .default(limit): the value that the validated data has for an option
\* that is not given
WithDefault(x, limit) == IF IsUndefined(x) THEN [n |-> limit] ELSE x

\* z.enum(['W3C', 'WHATWG', 'IETF', 'all']).optional()
Organizations == {<<"W", "3", "C">>, <<"W", "H", "A", "T", "W", "G">>,
                  <<"I", "E", "T", "F">>, All}
OptionalOrganization(x) ==
    IsUndefined(x) \/ (IsStr(x) /\ x.text \in Organizations)

\* validateInput(schema, args).success, for the schema of the tool
Valid(request) ==
    CASE request.name = "get_w3c_spec" -> RequiredString(request.args.shortname)
      [] request.name = "get_webidl" -> RequiredString(request.args.shortname)
      [] request.name = "search_w3c_specs" ->
            /\ RequiredString(request.args.query)
            /\ OptionalLimit(request.args.limit, MIN_VALID_SEARCH_LIMIT,
                             MAX_VALID_SEARCH_LIMIT)
      [] request.name = "list_w3c_specs" ->
            /\ OptionalOrganization(request.args.organization)
            /\ OptionalString(request.args.keyword)
            /\ OptionalString(request.args.category)
            /\ OptionalLimit(request.args.limit, MIN_VALID_LIST_LIMIT,
                             MAX_VALID_LIST_LIMIT)
      [] request.name = "get_html_elements" -> OptionalString(request.args.spec)
      [] OTHER -> FALSE

\* new ValidationError(validation.error) and new Error(`Unknown tool: ...`)
ValidationError == [name |-> "ValidationError",
                    message |-> Message("Validation error", << >>, << >>, FALSE)]
UnknownTool(name) == [name |-> "Error",
                      message |-> Message("Unknown tool", name, << >>, FALSE)]

\* a thrown value that is no Error: a string, a number, a plain object
NotAnError(value) == [thrown |-> value]
IsErrorInstance(error) == "thrown" \notin DOMAIN error

\* error instanceof W3CMCPError
IsW3CMCPError(error) ==
    /\ IsErrorInstance(error)
    /\ error.name \in {"ValidationError", "SpecNotFoundError",
                       "WebIDLNotFoundError", "CSSNotFoundError",
                       "ElementsNotFoundError", "W3CMCPError"}

\* error instanceof C, for one of the classes that formatErrorResponse
\* tells apart
InstanceOf(error, class) == IsErrorInstance(error) /\ error.name = class

\* a faulty variant of formatErrorResponse: the test for the base class
\* comes before the test for WebIDLNotFoundError
formatErrorResponseBaseFirst(error) ==
    IF InstanceOf(error, "ValidationError")
    THEN [errorType |-> "ValidationError",
          text |-> [error |-> "ValidationError", message |-> error.message,
                    issues |-> TRUE]]
    ELSE IF InstanceOf(error, "SpecNotFoundError")
    THEN [errorType |-> "SpecNotFoundError",
          text |-> [error |-> "SpecNotFoundError", message |-> error.message,
                    suggestions |-> error.suggestions]]
    ELSE IF IsW3CMCPError(error)
    THEN [errorType |-> error.name,
          text |-> [error |-> error.name, message |-> error.message]]
    ELSE IF IsErrorInstance(error)
    THEN [errorType |-> "Error", text |-> [plain |-> error.message]]
    ELSE [errorType |-> "UnknownError", text |-> [unknown |-> TRUE]]

\* formatErrorResponse: the instanceof chain, most specific class first
formatErrorResponse(error) ==
    IF InstanceOf(error, "ValidationError")
    THEN [errorType |-> "ValidationError",
          text |-> [error |-> "ValidationError", message |-> error.message,
                    issues |-> TRUE]]
    ELSE IF InstanceOf(error, "SpecNotFoundError")
    THEN [errorType |-> "SpecNotFoundError",
          text |-> [error |-> "SpecNotFoundError", message |-> error.message,
                    suggestions |-> error.suggestions]]
    ELSE IF InstanceOf(error, "WebIDLNotFoundError")
    THEN [errorType |-> "WebIDLNotFoundError",
          text |-> [error |-> "WebIDLNotFoundError", message |-> error.message,
                    suggestions |-> error.suggestions]]
    ELSE IF IsW3CMCPError(error)
    THEN [errorType |-> error.name,
          text |-> [error |-> error.name, message |-> error.message]]
    ELSE IF IsErrorInstance(error)
    THEN [errorType |-> "Error", text |-> [plain |-> error.message]]
    ELSE [errorType |-> "UnknownError", text |-> [unknown |-> TRUE]]

\* a faulty variant of Catches: only the server's own errors are caught
CatchesOwnErrors(error) == IsW3CMCPError(error)

\* catch (error) { ... }: the handler catches whatever is thrown in its
\* try block
Catches(error) == TRUE

\* what the handler returns for the outcome of its try block: the payload
\* with the result, or the payload flagged isError; nothing if the error
\* is not caught
Response(op, outcome) ==
    IF outcome.status = "ok"
    THEN [content |-> IF op = "getWebIDL" THEN outcome.value
                      ELSE [json |-> outcome.value],
          isError |-> FALSE]
    ELSE [content |-> formatErrorResponse(ErrorOf(outcome)).text,
          isError |-> TRUE]

Responded(op, outcome) ==
    IF outcome.status = "error" /\ ~Catches(ErrorOf(outcome))
    THEN [IdleCall EXCEPT !.op = op, !.pc = "escaped",
                          !.result = [status |-> "escaped", outcome |-> outcome]]
    ELSE [IdleCall EXCEPT !.op = op, !.pc = "responded",
             !.result = [status |-> "responded", outcome |-> outcome,
                         response |-> Response(op, outcome)]]

\* a request for a tool that the switch does not know, or with arguments
\* that fail the schema of the tool: the error is thrown inside the try
\* block
HandleRejected(c, request) ==
    /\ callers[c].op = "idle"
    /\ ~Valid(request)
    /\ callers' = [callers EXCEPT ![c] =
          [Responded("handler",
                     Thrown(IF request.name \in ToolNames THEN ValidationError
                            ELSE UnknownTool(request.name)))
              EXCEPT !.locals = request]]
    /\ UNCHANGED <<webSpecs, webref, promises, cacheVars, indexVars, epoch,
                   started, loadCalled, preload, mainVars>>

\* a request with valid arguments: the tool is called and awaited
HandleAccepted(c, request) ==
    /\ Valid(request)
    /\ CASE request.name = "get_w3c_spec" ->
               CallGetSpec(c, request.args.shortname.text)
         [] request.name = "get_webidl" ->
               CallGetWebIDL(c, request.args.shortname.text)
         [] request.name = "search_w3c_specs" ->
               CallSearchSpecs(c, request.args.query.text,
                               WithDefault(request.args.limit,
                                           DEFAULT_SEARCH_LIMIT))
         [] request.name = "list_w3c_specs" ->
               CallListSpecs(c, [request.args EXCEPT !.limit =
                                   WithDefault(request.args.limit,
                                               DEFAULT_LIST_LIMIT)])
         [] request.name = "get_html_elements" ->
               CallGetElements(c, IF IsStr(request.args.spec)
                                  THEN request.args.spec.text ELSE << >>)

\* formatErrorResponse is called with a value that was thrown
CallFormat(c, error) ==
    /\ callers[c].op = "idle"
    /\ callers' = [callers EXCEPT ![c] =
          [IdleCall EXCEPT !.op = "formatErrorResponse", !.pc = "done",
                           !.locals = error,
                           !.result = [status |-> "ok",
                                       value |-> formatErrorResponse(error)]]]
    /\ UNCHANGED <<webSpecs, webref, promises, cacheVars, indexVars, epoch,
                   started, loadCalled, preload, mainVars>>

\* the tool has returned or thrown: the handler returns its payload
Respond(c) ==
    /\ callers[c].pc = "done"
    /\ callers' = [callers EXCEPT ![c] =
          [Responded(callers[c].op, callers[c].result)
              EXCEPT !.id = callers[c].id]]
    /\ promises' = Collect(promises, Cache, callers')
    /\ UNCHANGED <<webSpecs, webref, cacheVars, indexVars, epoch, started,
                   loadCalled, preload, mainVars>>

\* the transport has taken the payload, the next request can come
Reply(c) ==
    /\ callers[c].pc = "responded"
    /\ callers' = [callers EXCEPT ![c] = IdleCall]
    /\ UNCHANGED <<webSpecs, webref, promises, cacheVars, indexVars, epoch,
                   started, loadCalled, preload, mainVars>>

\* ------------------------------------------------------------------------
\* Specifications
\* ------------------------------------------------------------------------

\* the state of the module once it is imported, the packages holding the
\* records specs and the data
InitWorld(specs, data) ==
    /\ webSpecs = specs
    /\ webref = data
    /\ promises = << >>
    /\ specsPromise = Null
    /\ idlPromise = Null
    /\ cssPromise = Null
    /\ elementsPromise = Null
    /\ specsIndex = Null
    /\ seriesIndex = Null
    /\ callers = [c \in Callers |-> IdleCall]
    /\ epoch = 0
    /\ started = [k \in Kinds |-> 0]
    /\ loadCalled = FALSE
    /\ preload = [done |-> FALSE, clean |-> FALSE]
    /\ mainPc = "init"
    /\ preloadCalls = 0
    /\ exitCode = 0

InitWith(specs) == InitWorld(specs, ExampleWebref)

\* the underlying loads finish
Loads ==
    \E p \in PromiseIds :
        \/ SpecsLoaded(p)
        \/ SpecsFailed(p)
        \/ DataLoaded(p, TRUE)
        \/ DataLoaded(p, FALSE)

\* Spec: the load functions under test code, two calls in flight at most
\* and clearCache at any moment
Init == InitWith(ExampleSpecs)

Next ==
    \/ \E c \in Clients :
          \/ \E k \in Kinds : CallLoad(c, k)
          \/ ResumeLoad(c)
          \/ Return(c)
    \/ Loads
    \/ ClearCache

Spec == Init /\ [][Next]_vars

\* SpecPreload: one client calls preloadAll while the other calls the load
\* functions, and clearCache runs at any moment
PreloadClient == "c1"
LoadClient == "c2"

NextPreload ==
    \/ CallPreloadAll(PreloadClient)
    \/ ResumePreloadAll(PreloadClient)
    \/ Return(PreloadClient)
    \/ \E k \in Kinds : CallLoad(LoadClient, k)
    \/ ResumeLoad(LoadClient)
    \/ Return(LoadClient)
    \/ Loads
    \/ ClearCache

SpecPreload == Init /\ [][NextPreload]_vars

\* SpecSeq: one client that awaits every call of the resolver before it
\* makes the next, over every bundled collection
InitSeq == \E specs \in Collections : InitWith(specs)

NextSeq ==
    \/ \E id \in Identifiers :
          \/ CallFindSpec(SeqClient, id)
          \/ CallQuickFind(SeqClient, id)
    \/ QuickFindImported(SeqClient)
    \/ FindSpecThrows(SeqClient)
    \/ FindSpecIndexed(SeqClient)
    \/ FindSpecFallback(SeqClient)
    \/ FindSpecScanned(SeqClient)
    \/ Return(SeqClient)
    \/ \E p \in PromiseIds : SpecsLoaded(p) \/ SpecsFailed(p)

SpecSeq == InitSeq /\ [][NextSeq]_vars

\* SpecServer: the server process, from main to the requests it serves
NextServer ==
    /\ mainPc # "exited"
    /\ \/ MainStart
       \/ MainPreloaded
       \/ MainPreloadFailed
       \/ MainConnected
       \/ MainConnectFailed
       \/ \E c \in Clients :
             \/ Request(c)
             \/ ResumeLoad(c)
             \/ FindSpecThrows(c)
             \/ FindSpecIndexed(c)
             \/ FindSpecFallback(c)
             \/ FindSpecScanned(c)
             \/ Return(c)
       \/ Loads

SpecServer == Init /\ [][NextServer]_vars

\* SpecSearch: one client that awaits every call of searchSpecs before it
\* makes the next, over every collection that is searched
InitSearch == \E specs \in SearchCollections : InitWith(specs)

NextSearch ==
    \/ \E query \in Queries, limit \in Limits :
          CallSearchSpecs(SeqClient, query, limit)
    \/ SearchSpecsResumed(SeqClient)
    \/ SearchSpecsThrows(SeqClient)
    \/ Return(SeqClient)
    \/ \E p \in PromiseIds : SpecsLoaded(p) \/ SpecsFailed(p)

SpecSearch == InitSearch /\ [][NextSearch]_vars

\* the records, collections and identifiers that the tools are called with
ToolRecords ==
    { ToolSpec(<<"a">>, Cap(wBab), NoSeries),
      ToolSpec(<<"b">>, Cap(wBab), NoSeries),
      ToolSpec(<<"a", "a">>, Cap(wSss), NoSeries),
      ToolSpec(<<"a", "b">>, Cap(wSss), Series(<<"b", "a">>, <<"a", "b">>)),
      ToolSpec(<<"b", "a">>, Cap(wSss), NoSeries),
      ToolSpec(<<"b", "b">>, Cap(wSss), Series(<<"s", "s">>, <<"b", "b">>)) }

ToolCollections ==
    {specs \in SeqsUpTo(ToolRecords, MaxSpecs) :
        \A i, j \in DOMAIN specs : specs[i].shortname = specs[j].shortname
                                      => i = j}

\* a collection with more records than are ever suggested, all of them
\* with the same title
ManyNames == <<<<"a">>, <<"b">>, <<"a", "a">>, <<"a", "b">>, <<"b", "a">>,
               <<"b", "b">>>>
ManySpecs ==
    [i \in 1 .. (MAX_SUGGESTIONS + 1) |->
        ToolSpec(ManyNames[i], Cap(wSss), NoSeries)]

\* SpecGetSpec: two clients call getSpec, over the collections of the
\* tools
GetSpecIdentifiers == {<<"b">>, <<"s", "s">>, <<"S", "S">>, <<"s", "b">>}

InitGetSpec ==
    \E specs \in ToolCollections \cup {ManySpecs} : InitWith(specs)

NextGetSpec ==
    \/ \E c \in Clients :
          \/ \E id \in GetSpecIdentifiers : CallGetSpec(c, id)
          \/ FindSpecThrows(c)
          \/ FindSpecIndexed(c)
          \/ FindSpecFallback(c)
          \/ FindSpecScanned(c)
          \/ GetSpecFound(c)
          \/ GetSpecMissed(c)
          \/ GetSpecNotFound(c)
          \/ Return(c)
    \/ \E p \in PromiseIds : SpecsLoaded(p) \/ SpecsFailed(p)

SpecGetSpec == InitGetSpec /\ [][NextGetSpec]_vars

\* SpecWebIDL: one client calls getWebIDL, over the collections of the
\* tools and the sets of WebIDL keys
IdlKeys == <<<<"a">>, <<"a", "b">>, <<"b", "a">>, <<"s", "s">>>>
IdlKeySeqs ==
    {SelectSeq(IdlKeys, LAMBDA key : key \in S) :
        S \in SUBSET {IdlKeys[i] : i \in DOMAIN IdlKeys}}
WebIDLIdentifiers ==
    {<<"a">>, <<"b">>, <<"a", "b">>, <<"b", "b">>, <<"s", "b">>, InheritedName}

InitWebIDL ==
    \E specs \in ToolCollections, idl \in IdlKeySeqs :
        InitWorld(specs, Webref(idl, << >>))

NextWebIDL ==
    \/ \E id \in WebIDLIdentifiers : CallGetWebIDL(SeqClient, id)
    \/ GetWebIDLExact(SeqClient)
    \/ GetWebIDLResolve(SeqClient)
    \/ FindSpecThrows(SeqClient)
    \/ FindSpecIndexed(SeqClient)
    \/ FindSpecFallback(SeqClient)
    \/ FindSpecScanned(SeqClient)
    \/ GetWebIDLResolved(SeqClient)
    \/ GetWebIDLMissed(SeqClient)
    \/ GetWebIDLNotFound(SeqClient)
    \/ Return(SeqClient)
    \/ Loads

SpecWebIDL == InitWebIDL /\ [][NextWebIDL]_vars

\* SpecElements: one client calls getElements, over element data of every
\* number of specs up to MaxElementSpecs
ElementKey(n) == [i \in 1 .. n |-> "e"]
ElementKeySeqs ==
    {[i \in 1 .. n |-> ElementKey(i)] : n \in 0 .. MaxElementSpecs}
ElementSpecNames == {ElementKey(1), <<"a">>, InheritedName}

InitElements ==
    \E elements \in ElementKeySeqs :
        InitWorld(ExampleSpecs, Webref(<< >>, elements))

NextElements ==
    \/ \E id \in ElementSpecNames : CallGetElements(SeqClient, id)
    \/ GetElementsLoaded(SeqClient)
    \/ Return(SeqClient)
    \/ \E p \in PromiseIds : DataLoaded(p, TRUE) \/ DataLoaded(p, FALSE)

SpecElements == InitElements /\ [][NextElements]_vars

\* SpecDispatch: the request handler, one request at a time
DispatchSpecs ==
    << ToolSpec(<<"a", "b">>, Cap(wSss), Series(<<"b", "a">>, <<"a", "b">>)),
       ToolSpec(<<"b">>, Cap(wBab), NoSeries) >>
DispatchWebref == Webref(<<<<"a", "b">>, <<"b", "a">>>>, <<ElementKey(1)>>)

NoArgs == Args(Undefined, Undefined, Undefined, Undefined)
Requests ==
    {ToolRequest("get_w3c_spec", Args(s, Undefined, Undefined, Undefined)) :
        s \in {Str(<<"b">>), Str(<<"s", "s">>), Str(<< >>), Undefined}}
    \cup
    {ToolRequest("get_webidl", Args(s, Undefined, Undefined, Undefined)) :
        s \in {Str(<<"a", "b">>), Str(<<"a">>), Str(<<"s", "b">>), Limit(1)}}
    \cup
    {ToolRequest("search_w3c_specs", Args(Undefined, q, l, Undefined)) :
        q \in {Str(<<"b">>), Str(<< >>)},
        l \in {Undefined, Limit(0), Limit(1), Limit(MAX_VALID_SEARCH_LIMIT + 1)}}
    \cup
    {ToolRequest("get_html_elements", Args(Undefined, Undefined, Undefined, s)) :
        s \in {Undefined, Str(ElementKey(1)), Str(<<"a">>), Str(InheritedName),
               Limit(1)}}
    \cup
    {ToolRequest("list_w3c_specs", ListSpecsOptions(o, k, Undefined, l)) :
        o \in {Undefined, Str(All), Str(<<"W", "3", "C">>), Str(<<"w", "3", "c">>)},
        k \in {Undefined, Str(<<"b">>), Limit(1)},
        l \in {Undefined, Limit(0), Limit(1), Limit(MAX_VALID_LIST_LIMIT),
               Limit(MAX_VALID_LIST_LIMIT + 1)}}
    \cup
    {ToolRequest("no_such_tool", NoArgs)}

InitDispatch == InitWorld(DispatchSpecs, DispatchWebref)

NextDispatch ==
    \/ \E request \in Requests :
          \/ HandleRejected(SeqClient, request)
          \/ HandleAccepted(SeqClient, request)
    \/ FindSpecThrows(SeqClient)
    \/ FindSpecIndexed(SeqClient)
    \/ FindSpecFallback(SeqClient)
    \/ FindSpecScanned(SeqClient)
    \/ GetSpecFound(SeqClient)
    \/ GetSpecMissed(SeqClient)
    \/ GetSpecNotFound(SeqClient)
    \/ GetWebIDLExact(SeqClient)
    \/ GetWebIDLResolve(SeqClient)
    \/ GetWebIDLResolved(SeqClient)
    \/ GetWebIDLMissed(SeqClient)
    \/ GetWebIDLNotFound(SeqClient)
    \/ SearchSpecsResumed(SeqClient)
    \/ SearchSpecsThrows(SeqClient)
    \/ ListSpecsResumed(SeqClient)
    \/ GetElementsLoaded(SeqClient)
    \/ Respond(SeqClient)
    \/ Reply(SeqClient)
    \/ Loads

SpecDispatch == InitDispatch /\ [][NextDispatch]_vars

\* SpecFormat: formatErrorResponse, for the errors of every class and for
\* values that are no errors
SuggestionLists ==
    {Undefined} \cup {NameList(names) : names \in SeqsUpTo({<<"a">>, <<"a", "b">>}, 2)}
Errors ==
    {ValidationError, UnknownTool(<<"a">>), NotIterable, LoadError,
     W3CMCPError("other"), NotAnError("text"), NotAnError("null"),
     [thrown |-> "object", name |-> "ValidationError"]}
    \cup {SpecNotFoundError(id, suggestions) :
             id \in GetSpecIdentifiers, suggestions \in SuggestionLists}
    \cup {WebIDLNotFoundError(id, suggestions, multipleMatch) :
             id \in GetSpecIdentifiers, suggestions \in SuggestionLists,
             multipleMatch \in BOOLEAN}
    \cup {ElementsNotFoundError(id, keys) :
             id \in ElementSpecNames, keys \in ElementKeySeqs}

InitFormat == InitWith(ExampleSpecs)

NextFormat ==
    \/ \E error \in Errors : CallFormat(SeqClient, error)
    \/ Return(SeqClient)

SpecFormat == InitFormat /\ [][NextFormat]_vars

\* SpecList: one client calls listSpecs, over collections of records with
\* and without organization and categories
ListRecords ==
    { ListableSpec(<<"a">>, Cap(wBab), Str(toUpperCase(wSab)),
                   NameList(<<Cap(wSas)>>)),
      ListableSpec(<<"b">>, Cap(wSss), Str(wSas),
                   NameList(<<Cap(wBab), Cap(wSss)>>)),
      ListableSpec(<<"a", "b">>, Cap(wSas), Undefined, Undefined),
      ListableSpec(<<"b", "a">>, Cap(wBab), Str(toUpperCase(wSab)),
                   NameList(<<Cap(wSss)>>)),
      ListableSpec(<<"b", "b">>, Cap(wBab), Str(toUpperCase(wSab)),
                   NameList(<< >>)) }

ListCollections ==
    {specs \in SeqsUpTo(ListRecords, MaxSpecs) :
        \A i, j \in DOMAIN specs : specs[i] = specs[j] => i = j}

ListOptions ==
    {ListSpecsOptions(organization, keyword, category, limit) :
        organization \in {Undefined, Str(wSab), Str(All),
                          Str(toUpperCase(wSas)), Str(<< >>)},
        keyword \in {Undefined, Str(<<"B">>), Str(<<"a">>), Str(<< >>)},
        category \in {Undefined, Str(<<"s">>), Str(<<"S", "A">>), Str(<< >>)},
        limit \in Limits}

InitList == \E specs \in ListCollections : InitWith(specs)

NextList ==
    \/ \E options \in ListOptions : CallListSpecs(SeqClient, options)
    \/ ListSpecsResumed(SeqClient)
    \/ Return(SeqClient)
    \/ \E p \in PromiseIds : SpecsLoaded(p) \/ SpecsFailed(p)

SpecList == InitList /\ [][NextList]_vars

\* ------------------------------------------------------------------------
\* Properties of the load functions and of clearCache (Spec)
\* ------------------------------------------------------------------------

LoadCall(c) == callers[c].op = "load"
LoadDone(c) == LoadCall(c) /\ callers[c].pc = "done"
SameLoad(c, d) ==
    /\ LoadCall(c) /\ LoadCall(d)
    /\ callers[c].kind = callers[d].kind
    /\ callers[c].epoch = callers[d].epoch

\* C1: for each of the four collections, the load calls made between two
\* clearCache calls start the underlying load at most once, and all of
\* them are answered by the same promise and receive the same settled value
SingleFlight ==
    /\ \A k \in Kinds : started[k] <= 1
    /\ \A p \in PromiseIds : p.n = 1
    /\ \A c, d \in Clients :
          SameLoad(c, d) =>
             /\ callers[c].awaiting = callers[d].awaiting
             /\ (LoadDone(c) /\ LoadDone(d)
                    => callers[c].result = callers[d].result)

\* two calls of the same load function made in the same epoch have both
\* received the loaded collection
SingleFlightWitness ==
    /\ SameLoad("c1", "c2")
    /\ LoadDone("c1") /\ LoadDone("c2")
    /\ callers["c1"].result.status = "ok"
    /\ callers["c2"].result.status = "ok"

\* C2: memoization is per epoch: a promise that is memoized was created
\* after the last clearCache, and a load call is answered by a promise
\* created after the last clearCache that preceded the call, so by none of
\* the promises memoized before that clearCache; the load of a collection
\* whose promise is memoized was started after the last clearCache
PerEpochMemo ==
    /\ \A k \in Kinds :
          ~IsNull(Memo(k)) =>
             /\ Memo(k).kind = k
             /\ Memo(k).epoch = epoch
             /\ started[k] >= 1
    /\ \A c \in Clients :
          LoadCall(c) => callers[c].awaiting[1].epoch = callers[c].epoch

\* a collection was loaded, clearCache ran, and the next load call of the
\* same collection is answered by another promise
PerEpochMemoWitness ==
    /\ LoadDone("c1") /\ LoadCall("c2")
    /\ callers["c1"].kind = callers["c2"].kind
    /\ callers["c1"].epoch < callers["c2"].epoch
    /\ callers["c1"].awaiting # callers["c2"].awaiting
    /\ callers["c2"].awaiting[1] = Memo(callers["c2"].kind)

\* C3: after clearCache, and until the next call of a load function, the
\* four memoized promises and the two indices are absent, also when a
\* specification load was in flight during clearCache
ClearedUntilNextLoad ==
    (epoch > 0 /\ ~loadCalled) =>
       /\ \A k \in Kinds : IsNull(Memo(k))
       /\ IsNull(specsIndex)
       /\ IsNull(seriesIndex)

\* C4: a failed specification load is not memoized: no loadSpecs call is
\* answered with the failure of a load that had failed before the call
FailedLoadNotMemoized ==
    \A c \in Clients : (LoadCall(c) /\ callers[c].kind = "specs")
                           => ~callers[c].retry

\* C5: a failed load of the WebIDL, CSS or elements collection never makes
\* the load call fail; its promise is fulfilled with the empty collection
\* and stays memoized until clearCache, and no second load is started
DegradeToEmpty ==
    /\ \A p \in PromiseIds :
          p.kind # "specs" =>
             /\ ~Rejected(p)
             /\ promises[p].failed =>
                   /\ Fulfilled(p)
                   /\ promises[p].value = EmptyCollection
                   /\ (p.epoch = epoch => Memo(p.kind) = p)
    /\ \A k \in Kinds \ {"specs"} : started[k] <= 1
    /\ \A c \in Clients :
          (LoadDone(c) /\ callers[c].kind # "specs")
             => callers[c].result.status = "ok"

\* both clients called the load function of a collection whose load
\* failed, and both received the memoized empty collection
DegradeToEmptyWitness ==
    /\ SameLoad("c1", "c2")
    /\ LoadDone("c1") /\ LoadDone("c2")
    /\ callers["c1"].kind # "specs"
    /\ callers["c1"].result.value = EmptyCollection
    /\ callers["c2"].result.value = EmptyCollection
    /\ Memo(callers["c1"].kind) = callers["c1"].awaiting[1]

\* ------------------------------------------------------------------------
\* Properties of preloadAll (SpecPreload)
\* ------------------------------------------------------------------------

PreloadCall(c) == callers[c].op = "preloadAll"
PreloadReturned(c) ==
    /\ PreloadCall(c)
    /\ callers[c].pc = "done"
    /\ callers[c].result.status = "ok"

AllMemoized == \A k \in Kinds : ~IsNull(Memo(k)) /\ Fulfilled(Memo(k))

\* preloadAll has called the four load functions, and it has returned only
\* if the four promises it awaited are fulfilled
PreloadAwaitsAll ==
    \A c \in Callers :
       PreloadCall(c) =>
          /\ \A i \in DOMAIN LoadOrder :
                /\ callers[c].awaiting[i] \in PromiseIds
                /\ callers[c].awaiting[i].kind = LoadOrder[i]
          /\ PreloadReturned(c) =>
                \A i \in DOMAIN LoadOrder : Fulfilled(callers[c].awaiting[i])

\* a call of preloadAll leaves every collection memoized, and every load it
\* started itself still pending
PreloadStartsAll ==
    \A c \in Callers :
       (callers[c].op = "idle" /\ callers'[c].op = "preloadAll") =>
          \A k \in Kinds :
             /\ ~IsNull(Cache'[k])
             /\ IsNull(Cache[k]) => promises'[Cache'[k]].state = "pending"

NoRequestAccepted == \A c \in Clients : callers[c].op = "idle"

\* C7: main calls preloadAll exactly once and connects the transport, and
\* so accepts requests, only after preloadAll has returned with the four
\* loads completed; if preloading fails the process exits with a failure
\* code, and it has accepted no request
StartupOrder ==
    /\ preloadCalls <= 1
    /\ mainPc \in {"connecting", "running"} =>
          /\ preloadCalls = 1
          /\ PreloadReturned(Main)
          /\ \A i \in DOMAIN LoadOrder : Fulfilled(callers[Main].awaiting[i])
    /\ mainPc # "running" => NoRequestAccepted
    /\ (PreloadCall(Main) /\ callers[Main].result.status = "error") =>
          mainPc = "exited"
    /\ mainPc = "exited" =>
          /\ exitCode = EXIT_FAILURE
          /\ exitCode # 0
          /\ NoRequestAccepted

\* the server is running and has answered a request from the preloaded
\* cache
StartupWitness ==
    /\ mainPc = "running"
    /\ preloadCalls = 1
    /\ \E c \in Clients :
          /\ LoadDone(c)
          /\ \E i \in DOMAIN LoadOrder :
                callers[Main].awaiting[i] = callers[c].awaiting[1]

\* ------------------------------------------------------------------------
\* Properties of findSpec and quickFindByShortname (SpecSeq)
\* ------------------------------------------------------------------------

\* a finished call of findSpec or quickFindByShortname that did not throw
Resolved(c, op) ==
    /\ callers[c].op = op
    /\ callers[c].pc = "done"
    /\ callers[c].result.status = "ok"

\* the positions of the records that match an identifier in each way
ExactAt(id) == {i \in DOMAIN webSpecs : webSpecs[i].shortname = id}
SeriesAt(id) ==
    {i \in DOMAIN webSpecs :
        HasSeries(webSpecs[i]) /\ webSpecs[i].series.shortname = id}
PartialAt(id) ==
    {i \in DOMAIN webSpecs :
        \/ Includes(webSpecs[i].shortname, id)
        \/ Includes(id, webSpecs[i].shortname)}

First(S) == CHOOSE i \in S : \A j \in S : i <= j

\* C8: for every record R of the loaded collection, findSpec(R.shortname)
\* returns R, and quickFindByShortname(R.shortname) returns a result for R
\* with score 100 and match kind 'shortname'
ExactMatch ==
    \A c \in Clients : \A i \in DOMAIN webSpecs :
       callers[c].id = webSpecs[i].shortname =>
          /\ Resolved(c, "findSpec") => callers[c].result.value = webSpecs[i]
          /\ Resolved(c, "quickFind") =>
                /\ ~IsNull(callers[c].result.value)
                /\ callers[c].result.value.summary.shortname
                      = webSpecs[i].shortname
                /\ callers[c].result.value.score = 100
                /\ callers[c].result.value.matchType = "shortname"

\* quickFindByShortname was called with the shortname of the second
\* record, which the first record matches as a series alias and partially
ExactMatchWitness ==
    /\ Resolved(SeqClient, "quickFind")
    /\ Len(webSpecs) >= 2
    /\ callers[SeqClient].id = webSpecs[2].shortname
    /\ 1 \in SeriesAt(callers[SeqClient].id)
    /\ 1 \in PartialAt(callers[SeqClient].id)
    /\ callers[SeqClient].result.value.score = 100

\* the record the ordered algorithm of C9 selects
Expected(id) ==
    IF ExactAt(id) # {} THEN webSpecs[First(ExactAt(id))]
    ELSE IF SeriesAt(id) # {} THEN webSpecs[First(SeriesAt(id))]
    ELSE IF PartialAt(id) # {} THEN webSpecs[First(PartialAt(id))]
    ELSE Undefined

\* C9: findSpec returns the record whose shortname equals the identifier;
\* else the first record in collection order whose series alias equals it;
\* else the first record in collection order whose shortname contains it
\* or is contained in it; and undefined exactly when no record matches
ResolutionOrder ==
    \A c \in Clients :
       Resolved(c, "findSpec") =>
          /\ callers[c].result.value = Expected(callers[c].id)
          /\ IsUndefined(callers[c].result.value) <=>
                (ExactAt(callers[c].id) \cup SeriesAt(callers[c].id)
                    \cup PartialAt(callers[c].id)) = {}

\* findSpec has returned the second record for an identifier that only
\* matches partially, the first record matching in no way
ResolutionOrderWitness ==
    /\ Resolved(SeqClient, "findSpec")
    /\ ExactAt(callers[SeqClient].id) = {}
    /\ SeriesAt(callers[SeqClient].id) = {}
    /\ PartialAt(callers[SeqClient].id) = {2}
    /\ callers[SeqClient].result.value = webSpecs[2]

\* the identifier is the alias of a series and no record's shortname
IsSeriesAlias(id) == ExactAt(id) = {} /\ SeriesAt(id) # {}

\* C10 as stated: findSpec called with a series alias (not itself a
\* shortname) returns the current specification of that series, whatever
\* the order of the members of the series in the collection
SeriesCurrent ==
    \A c \in Clients :
       (Resolved(c, "findSpec") /\ IsSeriesAlias(callers[c].id)) =>
          /\ ~IsUndefined(callers[c].result.value)
          /\ callers[c].result.value.shortname
                = webSpecs[First(SeriesAt(callers[c].id))]
                     .series.currentSpecification

\* C10, amended: findSpec called with a series alias (not itself a
\* shortname) returns the member of that series that comes first in the
\* collection, whether or not it is the current specification of the series
SeriesFirstMember ==
    \A c \in Clients :
       (Resolved(c, "findSpec") /\ IsSeriesAlias(callers[c].id)) =>
          /\ ~IsUndefined(callers[c].result.value)
          /\ HasSeries(callers[c].result.value)
          /\ callers[c].result.value.series.shortname = callers[c].id
          /\ \A i \in SeriesAt(callers[c].id) :
                \E j \in 1 .. i : callers[c].result.value = webSpecs[j]

\* findSpec was called with the alias of a series of two members whose
\* current specification is the second, and has returned the first
SeriesFirstMemberWitness ==
    /\ Resolved(SeqClient, "findSpec")
    /\ IsSeriesAlias(callers[SeqClient].id)
    /\ SeriesAt(callers[SeqClient].id) = {1, 2}
    /\ webSpecs[1].series.currentSpecification = webSpecs[2].shortname
    /\ callers[SeqClient].result.value = webSpecs[1]

\* ------------------------------------------------------------------------
\* Properties of searchSpecs (SpecSearch)
\* ------------------------------------------------------------------------

\* the call of searchSpecs has returned a list
SearchDone ==
    /\ callers[SeqClient].op = "searchSpecs"
    /\ callers[SeqClient].pc = "done"
    /\ callers[SeqClient].result.status = "ok"
SearchQuery == callers[SeqClient].id.query
SearchLimit == LimitOrDefault(callers[SeqClient].id.limit)
SearchList == callers[SeqClient].result.value

\* the rows of the scoring table for one record and one query, in the
\* order of the table; the rows on words are about a query that has words
\* of more than 2 characters
TableRows(spec, query) ==
    LET q == toLowerCase(query)
        sn == toLowerCase(spec.shortname)
        tt == toLowerCase(spec.title)
        ab == toLowerCase(spec.abstract)
        words == QueryWords(q)
        total == Len(words)
        inTitle == Cardinality({i \in DOMAIN words : Includes(tt, words[i])})
        inAbstract == Cardinality({i \in DOMAIN words : Includes(ab, words[i])})
        hasAbstract == spec.abstract # << >>
    IN  << [holds |-> sn = q, score |-> 100, kind |-> "shortname"],
           [holds |-> Includes(sn, q), score |-> 80, kind |-> "shortname"],
           [holds |-> Len(sn) > 3 /\ Includes(q, sn),
            score |-> 70, kind |-> "shortname"],
           [holds |-> tt = q, score |-> 90, kind |-> "title"],
           [holds |-> Includes(tt, q), score |-> 60, kind |-> "title"],
           [holds |-> total > 0 /\ inTitle = total,
            score |-> 50, kind |-> "title"],
           [holds |-> total > 0 /\ inTitle > 0,
            score |-> IF total > 0 THEN 30 + (20 * inTitle) \div total ELSE 0,
            kind |-> "title"],
           [holds |-> hasAbstract /\ Includes(ab, q),
            score |-> 25, kind |-> "description"],
           [holds |-> hasAbstract /\ total > 0 /\ 2 * inAbstract >= total,
            score |-> IF total > 0 THEN 15 + (10 * inAbstract) \div total
                      ELSE 0,
            kind |-> "description"] >>

Qualifies(spec, query) ==
    \E r \in DOMAIN TableRows(spec, query) : TableRows(spec, query)[r].holds

FirstRow(spec, query) ==
    LET rows == TableRows(spec, query)
        first == CHOOSE r \in DOMAIN rows :
                    rows[r].holds /\ \A s \in 1 .. (r - 1) : ~rows[s].holds
    IN  rows[first]

\* the position of the record of a result in the collection
RecordOf(result) ==
    CHOOSE j \in DOMAIN webSpecs :
        webSpecs[j].shortname = result.summary.shortname

Listed(spec) ==
    \E i \in DOMAIN SearchList :
        SearchList[i].summary.shortname = spec.shortname

\* C11: every result of searchSpecs carries the score and the match kind
\* of the first row of the scoring table that its record qualifies for
\* (shortname rows, then title rows, then, only if none of those
\* qualified, the abstract rows), and a record is in the list, when the
\* limit cut nothing off, exactly when some row qualified; so a record
\* whose shortname (longer than 3) is contained in the query scores 70
\* even if its title equals the query
ScoringTable ==
    SearchDone =>
       /\ \A i \in DOMAIN SearchList :
             /\ \E j \in DOMAIN webSpecs :
                   webSpecs[j].shortname = SearchList[i].summary.shortname
             /\ Qualifies(webSpecs[RecordOf(SearchList[i])], SearchQuery)
             /\ SearchList[i].score =
                   FirstRow(webSpecs[RecordOf(SearchList[i])], SearchQuery).score
             /\ SearchList[i].matchType =
                   FirstRow(webSpecs[RecordOf(SearchList[i])], SearchQuery).kind
       /\ Len(SearchList) < SearchLimit =>
             \A j \in DOMAIN webSpecs :
                Qualifies(webSpecs[j], SearchQuery) <=> Listed(webSpecs[j])

\* a search has returned, with score 70, a record whose title equals the
\* query and whose shortname the query contains, next to a record that
\* matched by its abstract only
ScoringTableWitness ==
    /\ SearchDone
    /\ \E i \in DOMAIN SearchList :
          /\ SearchList[i].score = QUERY_CONTAINS_SHORTNAME
          /\ toLowerCase(webSpecs[RecordOf(SearchList[i])].title)
                = toLowerCase(SearchQuery)
    /\ \E i \in DOMAIN SearchList : SearchList[i].matchType = "description"

\* C12: the list returned by searchSpecs is sorted by non-increasing
\* score, for every query and limit
SortedByScore ==
    SearchDone =>
       \A i \in 1 .. (Len(SearchList) - 1) :
          SearchList[i].score >= SearchList[i + 1].score

\* a search has returned two results of different scores, the higher one
\* first although its record comes later in the collection
SortedByScoreWitness ==
    /\ SearchDone
    /\ Len(SearchList) >= 2
    /\ SearchList[1].score > SearchList[2].score
    /\ RecordOf(SearchList[1]) > RecordOf(SearchList[2])

\* C13: searchSpecs returns at most limit results (none for limit 0, at
\* most 20 when no limit is given), namely the first limit results of the
\* full list sorted by score, so that no record left out scores higher
\* than one that is returned
RespectsLimit ==
    SearchDone =>
       LET full == Ranked(webSpecs, SearchQuery)
       IN  /\ Len(SearchList) <= SearchLimit
           /\ IsUndefined(callers[SeqClient].id.limit) => Len(SearchList) <= 20
           /\ SearchLimit = 0 => SearchList = << >>
           /\ Len(SearchList) = IF SearchLimit < Len(full) THEN SearchLimit
                                ELSE Len(full)
           /\ SearchList = SubSeq(full, 1, Len(SearchList))
           /\ \A j \in DOMAIN webSpecs :
                 (Qualifies(webSpecs[j], SearchQuery) /\ ~Listed(webSpecs[j]))
                    => \A i \in DOMAIN SearchList :
                          SearchList[i].score
                             >= FirstRow(webSpecs[j], SearchQuery).score

\* a search with limit 1 has returned one result and left out a record
\* that qualified
RespectsLimitWitness ==
    /\ SearchDone
    /\ SearchLimit = 1
    /\ Len(SearchList) = 1
    /\ \E j \in DOMAIN webSpecs :
          Qualifies(webSpecs[j], SearchQuery) /\ ~Listed(webSpecs[j])

\* C14: search is case-insensitive: the list returned for a query is the
\* one searchSpecs returns for the query in upper case and for the query
\* in lower case (same records, scores and match kinds)
CaseInsensitive ==
    SearchDone =>
       /\ SearchList = SearchResults(webSpecs, toUpperCase(SearchQuery),
                                     callers[SeqClient].id.limit)
       /\ SearchList = SearchResults(webSpecs, toLowerCase(SearchQuery),
                                     callers[SeqClient].id.limit)

HasKind(kind) == \E i \in DOMAIN SearchList : SearchList[i].matchType = kind
FirstOfKind(kind) ==
    LET first == CHOOSE i \in DOMAIN SearchList :
                    /\ SearchList[i].matchType = kind
                    /\ \A j \in 1 .. (i - 1) : SearchList[j].matchType # kind
    IN  SearchList[first]

\* C15 (as stated): in a list with a shortname result and a title result,
\* the first shortname result scores at least as much as the first title
\* result
ShortnameOverTitle ==
    (SearchDone /\ HasKind("shortname") /\ HasKind("title")) =>
       FirstOfKind("shortname").score >= FirstOfKind("title").score

\* C15 (amended): in a list with a shortname result and a title result,
\* the first shortname result scores at least as much as the first title
\* result, unless the first title result is an exact title match (90);
\* an exact shortname match (100) is ahead of every title result
ShortnameOverTitleUnlessExactTitle ==
    (SearchDone /\ HasKind("shortname") /\ HasKind("title")) =>
       /\ \/ FirstOfKind("shortname").score >= FirstOfKind("title").score
          \/ FirstOfKind("title").score = EXACT_TITLE
       /\ FirstOfKind("shortname").score = EXACT_SHORTNAME =>
             SearchList[1].matchType = "shortname"

\* a search has returned a record matched by a shortname that the query
\* contains ahead of a record whose title contains the query
ShortnameOverTitleWitness ==
    /\ SearchDone
    /\ HasKind("shortname") /\ HasKind("title")
    /\ FirstOfKind("shortname").score = QUERY_CONTAINS_SHORTNAME
    /\ FirstOfKind("title").score = TITLE_CONTAINS

\* ------------------------------------------------------------------------
\* Properties of the tools built on the resolver (SpecSeq)
\* ------------------------------------------------------------------------

\* C16: quickFindByShortname performs only the exact and the series alias
\* lookup: it returns a result (score 100, kind 'shortname') only for an
\* identifier that is the shortname or the series alias of some record,
\* and null for every other (non-empty) identifier
QuickFindExactOnly ==
    \A c \in Clients :
       (Resolved(c, "quickFind") /\ callers[c].id # << >>) =>
          IF ExactAt(callers[c].id) \cup SeriesAt(callers[c].id) # {}
          THEN /\ ~IsNull(callers[c].result.value)
               /\ callers[c].result.value.score = 100
               /\ callers[c].result.value.matchType = "shortname"
          ELSE IsNull(callers[c].result.value)

\* ------------------------------------------------------------------------
\* getWebIDL, getSpec, getElements and the request handler
\* ------------------------------------------------------------------------

\* a call of getWebIDL has ended after it looked for the identifier among
\* the keys idlData of the loaded WebIDL data and did not find it
WebIDLDone == /\ callers[SeqClient].op = "getWebIDL"
              /\ callers[SeqClient].pc = "done"
WebIDLKeys == callers[SeqClient].locals
OverlappingKeys ==
    SelectSeq(WebIDLKeys, LAMBDA key : Overlaps(key, callers[SeqClient].id))
AmbiguousCase == /\ WebIDLDone
                 /\ ~HasOwn(WebIDLKeys, callers[SeqClient].id)
                 /\ Len(OverlappingKeys) >= 2
AmbiguousMatch ==
    /\ callers[SeqClient].result.status = "error"
    /\ ErrorOf(callers[SeqClient].result).name = "WebIDLNotFoundError"
    /\ ErrorOf(callers[SeqClient].result).message.sentence
          = "Multiple WebIDL matches found"
    /\ ErrorOf(callers[SeqClient].result).message.listed = OverlappingKeys
    /\ ErrorOf(callers[SeqClient].result).suggestions = NameList(OverlappingKeys)

\* the record that findSpec returns for the identifier once the collection
\* is loaded and indexed
ResolvesTo(id) ==
    IF ~IsUndefined(IndexLookup(specsIndex, seriesIndex, id))
    THEN IndexLookup(specsIndex, seriesIndex, id)
    ELSE PartialMatch(webSpecs, id)

GetSpecDone(c) == /\ callers[c].op = "getSpec"
                  /\ callers[c].pc = "done"
                  /\ callers[c].result # Failed
Unmatched(id) ==
    \A i \in DOMAIN webSpecs :
        /\ webSpecs[i].shortname # id
        /\ ~(HasSeries(webSpecs[i]) /\ webSpecs[i].series.shortname = id)
        /\ ~Overlaps(webSpecs[i].shortname, id)

\* the not-found error of getSpec, with at most MAX_SUGGESTIONS suggested
\* shortnames, each of a record that is near the identifier
IsNotFound(result, id, near(_)) ==
    /\ result.status = "error"
    /\ ErrorOf(result).name = "Error"
    /\ ErrorOf(result).message.sentence = "Specification not found"
    /\ ErrorOf(result).message.about = id
    /\ Len(ErrorOf(result).message.listed) <= MAX_SUGGESTIONS
    /\ \A k \in DOMAIN ErrorOf(result).message.listed :
          \E i \in DOMAIN webSpecs :
             /\ webSpecs[i].shortname = ErrorOf(result).message.listed[k]
             /\ near(webSpecs[i])

\* two calls with the same identifier have the same outcome
SameOutcome ==
    \A c, d \in Clients :
        (GetSpecDone(c) /\ GetSpecDone(d) /\ callers[c].id = callers[d].id)
           => callers[c].result = callers[d].result

ElementsDone == /\ callers[SeqClient].op = "getElements"
                /\ callers[SeqClient].pc = "done"
ElementsKeys == DataOf(callers[SeqClient].awaiting[1])
UnknownElementsSpec == /\ ElementsDone
                       /\ callers[SeqClient].id # << >>
                       /\ ~HasOwn(ElementsKeys, callers[SeqClient].id)

\* C19: getElements with a spec name that is not a key of the elements
\* collection fails with the not-found error and returns no elements; the
\* message lists the first 10 of the known spec names at most, followed by
\* an ellipsis exactly when more than 10 specs are known.
ElementsNotFoundListsTen ==
    UnknownElementsSpec =>
       /\ callers[SeqClient].result.status = "error"
       /\ ErrorOf(callers[SeqClient].result).name = "ElementsNotFoundError"
       /\ ErrorOf(callers[SeqClient].result).message.about = callers[SeqClient].id
       /\ ErrorOf(callers[SeqClient].result).message.listed
             = SubSeq(ElementsKeys, 1,
                      IF Len(ElementsKeys) < MAX_AVAILABLE_SPECS_DISPLAY
                      THEN Len(ElementsKeys) ELSE MAX_AVAILABLE_SPECS_DISPLAY)
       /\ ErrorOf(callers[SeqClient].result).message.dots
             = (Len(ElementsKeys) > MAX_AVAILABLE_SPECS_DISPLAY)

\* the request handler: the call that it is handling for the client, and
\* the payload that it has returned
Handled == callers[SeqClient]
IsErrorPayload(response, error) ==
    /\ response.isError
    /\ response.content = formatErrorResponse(error).text
IsContentPayload(response) ==
    /\ ~response.isError
    /\ "content" \in DOMAIN response

\* the payload that the handler has returned is the one that the outcome
\* of the request calls for: flagged isError and built by
\* formatErrorResponse for an unknown tool, for arguments that fail the
\* validation and for a tool that has thrown; the content otherwise
RightPayload ==
    Handled.pc = "responded" =>
       IF Handled.op = "handler"
       THEN IF Handled.locals.name \in ToolNames
            THEN /\ ~Valid(Handled.locals)
                 /\ IsErrorPayload(Handled.result.response, ValidationError)
            ELSE IsErrorPayload(Handled.result.response,
                                UnknownTool(Handled.locals.name))
       ELSE IF Handled.result.outcome.status = "error"
       THEN IsErrorPayload(Handled.result.response,
                           ErrorOf(Handled.result.outcome))
       ELSE IsContentPayload(Handled.result.response)

\* a step of the handler: no error leaves it, a payload is returned only
\* at the end of a request, a request ends only with a payload, and the
\* payload that was returned is not replaced by another
ResponseStep ==
    /\ Handled'.pc # "escaped"
    /\ RightPayload'
    /\ (Handled'.pc = "responded" /\ Handled.pc # "responded")
          => Handled.pc \in {"idle", "done"}
    /\ (Handled'.pc = "idle" /\ Handled.pc # "idle")
          => Handled.pc = "responded"
    /\ (Handled.pc = "responded" /\ Handled' # Handled)
          => Handled' = IdleCall

\* C20: every tool call that the request handler handles produces exactly
\* one response: the content on success, or a payload flagged isError and
\* built by formatErrorResponse when the validation fails, when the tool
\* fails (not found, ambiguous match or any other error) or when the tool
\* name is unknown; no error leaves the handler for the transport.
OneResponse == [][ResponseStep]_vars

\* the handler has returned the payload flagged isError for a tool that
\* threw an error that is none of the server's own
OneResponseWitness ==
    /\ Handled.pc = "responded"
    /\ Handled.op = "getElements"
    /\ Handled.result.outcome.status = "error"
    /\ ErrorOf(Handled.result.outcome).name = "TypeError"
    /\ Handled.result.response.isError
    /\ Handled.result.response.content = [plain |-> NotIterable.message]

\* C30: score and match kind of every search result are consistent: the
\* kind is 'shortname' exactly when the score is 100, 80 or 70, 'title'
\* exactly when the score is 90, 60, 50 or strictly between 30 and 50,
\* 'description' exactly when the score is from 20 to 25; no result has a
\* score of 0 or less, or above 100.
ScoreMatchesKind ==
    SearchDone =>
       \A i \in DOMAIN SearchList :
          LET score == SearchList[i].score
              kind == SearchList[i].matchType
          IN  /\ kind \in {"shortname", "title", "description"}
              /\ (kind = "shortname") <=> (score \in {100, 80, 70})
              /\ (kind = "title") <=> (\/ score \in {90, 60, 50}
                                       \/ score > 30 /\ score < 50)
              /\ (kind = "description") <=> (score >= 20 /\ score <= 25)
              /\ score > 0
              /\ score <= 100

\* a result list with a title match on a part of the words and a
\* description match on half of the words
ScoreMatchesKindWitness ==
    /\ SearchDone
    /\ \E i \in DOMAIN SearchList :
          /\ SearchList[i].matchType = "title"
          /\ SearchList[i].score > 30 /\ SearchList[i].score < 50
    /\ \E i \in DOMAIN SearchList :
          /\ SearchList[i].matchType = "description"
          /\ SearchList[i].score = 20

\* the outcome that the four steps of getWebIDL call for, in their order:
\* the key that is the identifier, the key that is the shortname of the
\* record of findSpec, the key that is its series alias, the one key that
\* overlaps the identifier; no text if none of them succeeds
StepKey(id) ==
    LET spec == ResolvesTo(id)
    IN  IF HasOwn(WebIDLKeys, id) THEN NameList(<<id>>)
        ELSE IF ~IsUndefined(spec) /\ HasOwn(WebIDLKeys, spec.shortname)
        THEN NameList(<<spec.shortname>>)
        ELSE IF /\ ~IsUndefined(spec)
                /\ HasSeries(spec)
                /\ HasOwn(WebIDLKeys, spec.series.shortname)
        THEN NameList(<<spec.series.shortname>>)
        ELSE IF Len(OverlappingKeys) = 1 THEN NameList(OverlappingKeys)
        ELSE NameList(<< >>)

\* C26: getWebIDL returns WebIDL text by the first step that succeeds:
\* (1) the identifier is a WebIDL key, (2) the record of findSpec has text
\* under its shortname, (3) its series alias is a WebIDL key, (4) exactly
\* one WebIDL key overlaps the identifier. The text is the one stored
\* under the key of that step, and if no step succeeds the call fails
\* (ambiguous or not found) and returns no text (read for the calls whose
\* loads succeed).
FirstStepThatSucceeds ==
    (WebIDLDone /\ callers[SeqClient].result # Failed) =>
       IF StepKey(callers[SeqClient].id).names # << >>
       THEN callers[SeqClient].result =
               [status |-> "ok",
                value |-> IdlText(StepKey(callers[SeqClient].id).names[1])]
       ELSE /\ callers[SeqClient].result.status = "error"
            /\ ErrorOf(callers[SeqClient].result).name = "WebIDLNotFoundError"

\* formatErrorResponse has returned, for the value that was thrown
FormatDone == /\ callers[SeqClient].op = "formatErrorResponse"
              /\ callers[SeqClient].pc = "done"
Formatted == callers[SeqClient].result.value
ThrownValue == callers[SeqClient].locals
OwnNames == {"ValidationError", "SpecNotFoundError", "WebIDLNotFoundError"}

\* C27: formatErrorResponse reports as errorType the most specific kind
\* of the error: ValidationError, SpecNotFoundError and WebIDLNotFoundError
\* under their own names (the latter two with their suggestions) and never
\* as W3CMCPError or Error; any other W3CMCPError under its own name; a
\* plain Error as 'Error'; a value that is no Error as 'UnknownError'.
MostSpecificErrorType ==
    FormatDone =>
       IF ~IsErrorInstance(ThrownValue)
       THEN Formatted.errorType = "UnknownError"
       ELSE IF ThrownValue.name \in OwnNames
       THEN /\ Formatted.errorType = ThrownValue.name
            /\ Formatted.errorType \notin {"W3CMCPError", "Error"}
            /\ Formatted.text.error = ThrownValue.name
            /\ ThrownValue.name # "ValidationError"
                  => /\ "suggestions" \in DOMAIN Formatted.text
                     /\ Formatted.text.suggestions = ThrownValue.suggestions
       ELSE IF ThrownValue.name \in {"CSSNotFoundError", "ElementsNotFoundError",
                                     "W3CMCPError"}
       THEN /\ Formatted.errorType = ThrownValue.name
            /\ Formatted.text.error = ThrownValue.name
       ELSE /\ Formatted.errorType = "Error"
            /\ Formatted.text = [plain |-> ThrownValue.message]

\* formatErrorResponse has reported a WebIDLNotFoundError of an ambiguous
\* match under its own name, with the two keys it suggests
MostSpecificWitness ==
    /\ FormatDone
    /\ IsErrorInstance(ThrownValue)
    /\ ThrownValue.name = "WebIDLNotFoundError"
    /\ ThrownValue.message.sentence = "Multiple WebIDL matches found"
    /\ Formatted.errorType = "WebIDLNotFoundError"
    /\ Formatted.text.suggestions = NameList(<<<<"a">>, <<"a", "b">>>>)

\* a call of listSpecs has returned
ListDone == /\ callers[SeqClient].op = "listSpecs"
            /\ callers[SeqClient].pc = "done"
            /\ callers[SeqClient].result.status = "ok"
ListOptionsGiven == callers[SeqClient].id
ListResult == callers[SeqClient].result.value

\* a filter is supplied when its option is given and is not the empty
\* string
Supplied(option) == IsStr(option) /\ Len(option.text) > 0

\* the record satisfies every filter that the options supply
SatisfiesFilters(spec, options) ==
    /\ (Supplied(options.organization) /\ options.organization.text # All)
          => /\ "organization" \in DOMAIN spec
             /\ IsStr(spec.organization)
             /\ toLowerCase(spec.organization.text)
                   = toLowerCase(options.organization.text)
    /\ Supplied(options.keyword)
          => \/ Includes(toLowerCase(spec.title),
                         toLowerCase(options.keyword.text))
             \/ Includes(toLowerCase(spec.shortname),
                         toLowerCase(options.keyword.text))
    /\ Supplied(options.category)
          => /\ "categories" \in DOMAIN spec
             /\ ~IsUndefined(spec.categories)
             /\ \E i \in DOMAIN spec.categories.names :
                   Includes(toLowerCase(spec.categories.names[i]),
                            toLowerCase(options.category.text))

\* the records of the collection that satisfy the filters, in the order
\* of the collection
Satisfying == SelectSeq(webSpecs, LAMBDA s : SatisfiesFilters(s, ListOptionsGiven))
GivenLimit == IF IsUndefined(ListOptionsGiven.limit) THEN 50
              ELSE ListOptionsGiven.limit.n

\* C25: listSpecs returns the first `limit` records (50 if no limit is
\* given), in the order of the collection, of those that satisfy every
\* supplied filter at once: organization equal ignoring case (no
\* restriction for 'all'), keyword contained ignoring case in title or
\* shortname, category contained ignoring case in some category tag. So
\* every returned summary satisfies all the supplied filters and at most
\* `limit` summaries are returned.
ListsFirstSatisfying ==
    ListDone =>
       /\ Len(ListResult) = (IF GivenLimit < Len(Satisfying) THEN GivenLimit
                             ELSE Len(Satisfying))
       /\ \A i \in DOMAIN ListResult :
             ListResult[i].shortname = Satisfying[i].shortname
       /\ Len(ListResult) <= GivenLimit

\* listSpecs has returned the first of two records that satisfy the three
\* filters supplied, for a limit of 1
ListsFirstSatisfyingWitness ==
    /\ ListDone
    /\ Supplied(ListOptionsGiven.organization)
    /\ ListOptionsGiven.organization.text # All
    /\ Supplied(ListOptionsGiven.keyword)
    /\ Supplied(ListOptionsGiven.category)
    /\ GivenLimit = 1
    /\ Len(Satisfying) = 2
    /\ Len(ListResult) = 1
    /\ ListResult[1].shortname = webSpecs[1].shortname

\* the arguments of the request pass the schema of its tool
PassesSchema(request) ==
    LET args == request.args
        optional(x) == IsUndefined(x) \/ IsStr(x)
        limited(x, max) == IsUndefined(x) \/ (IsNum(x) /\ x.n >= 1 /\ x.n <= max)
    IN  CASE request.name \in {"get_w3c_spec", "get_webidl"} ->
                IsStr(args.shortname) /\ args.shortname.text # << >>
          [] request.name = "search_w3c_specs" ->
                /\ IsStr(args.query) /\ args.query.text # << >>
                /\ limited(args.limit, 100)
          [] request.name = "list_w3c_specs" ->
                /\ IsUndefined(args.organization)
                      \/ (IsStr(args.organization)
                            /\ args.organization.text \in Organizations)
                /\ optional(args.keyword)
                /\ optional(args.category)
                /\ limited(args.limit, 500)
          [] request.name = "get_html_elements" -> optional(args.spec)
          [] OTHER -> FALSE

\* the call of the core operation that the handler makes for a request:
\* the operation and the arguments it receives, a missing limit replaced
CoreCall(request) ==
    LET args == request.args
        orElse(x, n) == IF IsUndefined(x) THEN [n |-> n] ELSE x
    IN  CASE request.name = "get_w3c_spec" ->
                [op |-> "getSpec", id |-> args.shortname.text]
          [] request.name = "get_webidl" ->
                [op |-> "getWebIDL", id |-> args.shortname.text]
          [] request.name = "search_w3c_specs" ->
                [op |-> "searchSpecs",
                 id |-> [query |-> args.query.text,
                         limit |-> orElse(args.limit, 20)]]
          [] request.name = "list_w3c_specs" ->
                [op |-> "listSpecs",
                 id |-> [args EXCEPT !.limit = orElse(args.limit, 50)]]
          [] request.name = "get_html_elements" ->
                [op |-> "getElements",
                 id |-> IF IsStr(args.spec) THEN args.spec.text ELSE << >>]

\* what the core operation in progress has received
CoreArgumentsValid ==
    /\ Handled.op \in {"getSpec", "getWebIDL"} => Handled.id # << >>
    /\ Handled.op = "searchSpecs"
          => /\ Handled.id.query # << >>
             /\ IsNum(Handled.id.limit)
             /\ Handled.id.limit.n >= 1 /\ Handled.id.limit.n <= 100
    /\ Handled.op = "listSpecs"
          => /\ IsNum(Handled.id.limit)
             /\ Handled.id.limit.n >= 1 /\ Handled.id.limit.n <= 500

\* the step that the handler takes for a request
ValidationStep ==
    /\ CoreArgumentsValid'
    /\ (Handled.pc = "idle" /\ Handled'.pc # "idle") =>
          \E request \in Requests :
             \/ /\ PassesSchema(request)
                /\ Handled'.op = CoreCall(request).op
                /\ Handled'.id = CoreCall(request).id
                /\ Handled'.pc = "await"
             \/ /\ ~PassesSchema(request)
                /\ Handled'.op = "handler"
                /\ Handled'.locals = request
                /\ Handled'.pc = "responded"
                /\ request.name \in ToolNames
                      => IsErrorPayload(Handled'.result.response, ValidationError)

PWA_SHORTNAMES ==
    <<"service-workers", "appmanifest", "push-api", "notifications",
      "background-fetch", "background-sync", "periodic-background-sync",
      "badging", "web-share", "web-share-target", "getinstalledrelatedapps",
      "payment-handler", "content-index", "window-controls-overlay",
      "file-handling", "file-system-access", "web-app-launch",
      "protocol-handler", "shortcuts", "scope-extensions">>

\* Core PWA specification shortnames
CORE_PWA_SHORTNAMES ==
    <<"service-workers", "appmanifest", "push-api", "notifications">>

\* Keywords that might identify PWA-related specs, letter by letter as the
\* titles are
PWA_KEYWORDS ==
    << <<"m", "a", "n", "i", "f", "e", "s", "t">>,
       <<"s", "e", "r", "v", "i", "c", "e", " ", "w", "o", "r", "k", "e", "r">>,
       <<"o", "f", "f", "l", "i", "n", "e">>,
       <<"i", "n", "s", "t", "a", "l", "l">>,
       <<"b", "a", "c", "k", "g", "r", "o", "u", "n", "d">>,
       <<"p", "u", "s", "h">>,
       <<"n", "o", "t", "i", "f", "i", "c", "a", "t", "i", "o", "n">>,
       <<"c", "a", "c", "h", "e">>,
       <<"s", "t", "o", "r", "a", "g", "e">> >>

\* a record with a title: shortname and series alias are whole strings, the
\* title is a sequence of letters
TitledSpec(shortname, series, title) ==
    [shortname |-> shortname, series |-> series, title |-> title]

\* spec.series?.shortname
SeriesShortname(spec) ==
    IF spec.series = NoSeries THEN Undefined ELSE Str(spec.series.shortname)

\* shortnames.some((name) => spec.shortname.includes(name) ||
\*                           spec.series?.shortname?.includes(name))
matchesShortnames(spec, shortnames) ==
    \E i \in DOMAIN shortnames :
        \/ Includes(spec.shortname, shortnames[i])
        \/ /\ IsStr(SeriesShortname(spec))
           /\ Includes(SeriesShortname(spec).text, shortnames[i])

\* shortnames.includes(spec.shortname) ||
\*   (spec.series?.shortname !== undefined &&
\*    shortnames.includes(spec.series.shortname))
isExactMatch(spec, shortnames) ==
    \/ \E i \in DOMAIN shortnames : shortnames[i] = spec.shortname
    \/ /\ IsStr(SeriesShortname(spec))
       /\ \E i \in DOMAIN shortnames :
              shortnames[i] = SeriesShortname(spec).text

\* PWA_KEYWORDS.some((keyword) => lowerTitle.includes(keyword))
HasPwaKeyword(spec) ==
    \E i \in DOMAIN PWA_KEYWORDS :
        Includes(toLowerCase(spec.title), PWA_KEYWORDS[i])

\* a faulty variant of IsPwaSpec: the title alone decides
IsPwaSpecByTitle(spec) == HasPwaKeyword(spec)

\* the filter of getPwaSpecs
IsPwaSpec(spec) ==
    matchesShortnames(spec, PWA_SHORTNAMES) \/ HasPwaKeyword(spec)

\* the order of the letters of the titles: blank and hyphen before the
\* letters, the letters in alphabetical order
Collation == " -abcdefghijklmnopqrstuvwxyz"
Rank(ch) ==
    IF \E i \in 1 .. Len(Collation) : SubSeq(Collation, i, i) = ch
    THEN CHOOSE i \in 1 .. Len(Collation) : SubSeq(Collation, i, i) = ch
    ELSE Len(Collation) + 1

\* the first text is before the second, letter by letter
RECURSIVE LexBefore(_, _)
LexBefore(a, b) ==
    IF b = << >> THEN FALSE
    ELSE IF a = << >> THEN TRUE
    ELSE IF Head(a) # Head(b) THEN Rank(Head(a)) < Rank(Head(b))
    ELSE LexBefore(Tail(a), Tail(b))

\* the first text has its small letter where the two first differ
RECURSIVE LowerFirst(_, _)
LowerFirst(a, b) ==
    IF a = << >> \/ b = << >> THEN FALSE
    ELSE IF Head(a) # Head(b) THEN LowerChar(Head(a)) = <<Head(a)>>
    ELSE LowerFirst(Tail(a), Tail(b))

\* a.localeCompare(b) < 0: by the letters without their case, and by the
\* case, small before capital, when the letters are the same
TitleBefore(a, b) ==
    IF toLowerCase(a) # toLowerCase(b)
    THEN LexBefore(toLowerCase(a), toLowerCase(b))
    ELSE LowerFirst(a, b)

\* the comparison function of getPwaSpecs is negative
PwaBefore(a, b) ==
    LET aExact == isExactMatch(a, PWA_SHORTNAMES)
        bExact == isExactMatch(b, PWA_SHORTNAMES)
    IN  IF aExact /\ ~bExact THEN TRUE
        ELSE IF ~aExact /\ bExact THEN FALSE
        ELSE TitleBefore(a.title, b.title)

\* pwaSpecs.sort(...), a stable sort
RECURSIVE SortPwa(_)
SortPwa(specs) ==
    IF specs = << >> THEN << >>
    ELSE LET sorted == SortPwa(SubSeq(specs, 1, Len(specs) - 1))
             last == specs[Len(specs)]
             ahead == Cardinality({i \in DOMAIN sorted :
                          \A j \in 1 .. i : ~PwaBefore(last, sorted[j])})
         IN  SubSeq(sorted, 1, ahead) \o <<last>>
                \o SubSeq(sorted, ahead + 1, Len(sorted))

\* what getPwaSpecs returns for the loaded records
PwaSpecs(allSpecs) ==
    LET pwaSpecs == SortPwa(Filter(allSpecs, IsPwaSpec))
    IN  [i \in DOMAIN pwaSpecs |-> toSpecSummary(pwaSpecs[i])]

\* what getCorePwaSpecs returns for the loaded records
CorePwaSpecs(allSpecs) ==
    LET isCore(spec) == matchesShortnames(spec, CORE_PWA_SHORTNAMES)
        coreSpecs == Filter(allSpecs, isCore)
    IN  [i \in DOMAIN coreSpecs |-> toSpecSummary(coreSpecs[i])]

\* getPwaSpecs is entered: await loadSpecs()
CallGetPwaSpecs(c) ==
    /\ callers[c].op = "idle"
    /\ Load(c, <<"specs">>,
            [IdleCall EXCEPT !.op = "getPwaSpecs", !.kind = "specs",
                             !.epoch = epoch])
    /\ UNCHANGED <<webSpecs, webref, indexVars, epoch, preload, mainVars>>

\* a faulty variant of GetPwaSpecsResumed: the loaded array itself is sorted
GetPwaSpecsResumedInPlace(c) ==
    /\ callers[c].op = "getPwaSpecs"
    /\ callers[c].pc = "await"
    /\ Settled(callers[c].awaiting[1])
    /\ callers' = [callers EXCEPT ![c].pc = "done",
          ![c].result =
             IF Rejected(callers[c].awaiting[1]) THEN Failed
             ELSE [status |-> "ok", value |-> PwaSpecs(webSpecs)]]
    /\ webSpecs' = IF Rejected(callers[c].awaiting[1]) THEN webSpecs
                   ELSE SortPwa(webSpecs)
    /\ UNCHANGED <<webref, promises, cacheVars, indexVars, epoch,
                   started, loadCalled, preload, mainVars>>

\* getPwaSpecs after its await
GetPwaSpecsResumed(c) ==
    /\ callers[c].op = "getPwaSpecs"
    /\ callers[c].pc = "await"
    /\ Settled(callers[c].awaiting[1])
    /\ callers' = [callers EXCEPT ![c].pc = "done",
          ![c].result =
             IF Rejected(callers[c].awaiting[1]) THEN Failed
             ELSE [status |-> "ok", value |-> PwaSpecs(webSpecs)]]
    /\ UNCHANGED <<webSpecs, webref, promises, cacheVars, indexVars, epoch,
                   started, loadCalled, preload, mainVars>>

\* getCorePwaSpecs is entered: await loadSpecs()
CallGetCorePwaSpecs(c) ==
    /\ callers[c].op = "idle"
    /\ Load(c, <<"specs">>,
            [IdleCall EXCEPT !.op = "getCorePwaSpecs", !.kind = "specs",
                             !.epoch = epoch])
    /\ UNCHANGED <<webSpecs, webref, indexVars, epoch, preload, mainVars>>

\* getCorePwaSpecs after its await
GetCorePwaSpecsResumed(c) ==
    /\ callers[c].op = "getCorePwaSpecs"
    /\ callers[c].pc = "await"
    /\ Settled(callers[c].awaiting[1])
    /\ callers' = [callers EXCEPT ![c].pc = "done",
          ![c].result =
             IF Rejected(callers[c].awaiting[1]) THEN Failed
             ELSE [status |-> "ok", value |-> CorePwaSpecs(webSpecs)]]
    /\ UNCHANGED <<webSpecs, webref, promises, cacheVars, indexVars, epoch,
                   started, loadCalled, preload, mainVars>>

\* SpecPwa: two clients call getPwaSpecs and getCorePwaSpecs over
\* collections of records that match the lists by shortname, by series
\* alias, by title, or not at all
PwaRecords ==
    { TitledSpec("service-workers", Series("service-workers", "service-workers"),
                 Cap(wSab)),
      TitledSpec("push-api-2", NoSeries, Cap(wBab)),
      TitledSpec("sw-1", Series("my-appmanifest", "sw-1"), Cap(wSas)),
      TitledSpec("web-share", NoSeries, Cap(wAba)),
      TitledSpec("storage", NoSeries,
                 <<"S", "t", "o", "r", "a", "g", "e">>),
      TitledSpec("dom", Series("dom", "dom"), Cap(wBab)) }

PwaCollections ==
    {specs \in SeqsUpTo(PwaRecords, MaxSpecs) :
        \A i, j \in DOMAIN specs : specs[i] = specs[j] => i = j}

InitPwa == \E specs \in PwaCollections : InitWith(specs)

NextPwa ==
    \/ \E c \in Clients : CallGetPwaSpecs(c)
    \/ \E c \in Clients : GetPwaSpecsResumed(c)
    \/ \E c \in Clients : CallGetCorePwaSpecs(c)
    \/ \E c \in Clients : GetCorePwaSpecsResumed(c)
    \/ \E c \in Clients : Return(c)
    \/ \E p \in PromiseIds : SpecsLoaded(p) \/ SpecsFailed(p)

SpecPwa == InitPwa /\ [][NextPwa]_vars

\* ------------------------------------------------------------------------
\* Properties of getPwaSpecs and getCorePwaSpecs (SpecPwa)
\* ------------------------------------------------------------------------

PwaDone(c, op) ==
    /\ callers[c].op = op
    /\ callers[c].pc = "done"
    /\ callers[c].result.status = "ok"

Returned(c) ==
    {callers[c].result.value[i].shortname :
        i \in DOMAIN callers[c].result.value}

\* the four core names
CoreNames == {"service-workers", "appmanifest", "push-api", "notifications"}

\* a record of the collection with this shortname has a shortname or a
\* series alias that contains a core name
CarriesCoreName(shortname) ==
    \E i \in DOMAIN webSpecs :
        /\ webSpecs[i].shortname = shortname
        /\ \E name \in CoreNames :
              \/ Includes(shortname, name)
              \/ /\ webSpecs[i].series # NoSeries
                 /\ Includes(webSpecs[i].series.shortname, name)

\* C24: over one collection, every specification that getCorePwaSpecs
\* returns is among those that getPwaSpecs returns, and each of them has a
\* shortname or a series alias that contains one of the four core names
CoreWithinPwa ==
    \A c, d \in Clients :
        PwaDone(c, "getCorePwaSpecs") =>
            /\ \A shortname \in Returned(c) : CarriesCoreName(shortname)
            /\ PwaDone(d, "getPwaSpecs") => Returned(c) \subseteq Returned(d)

\* both views are returned, the core one is not empty, and the full one has
\* more in it
CoreWithinPwaWitness ==
    \E c, d \in Clients :
        /\ PwaDone(c, "getCorePwaSpecs")
        /\ PwaDone(d, "getPwaSpecs")
        /\ Returned(c) # {}
        /\ Returned(c) # Returned(d)
\* SpecRace: one client calls findSpec while the other calls loadSpecs, over
\* the collections whose shortnames are a, ab and b, and clearCache runs at
\* any moment
RaceNames == {<<"a">>, <<"a", "b">>, <<"b">>}
RaceCollections ==
    {specs \in Collections :
        \A i \in DOMAIN specs : specs[i].shortname \in RaceNames}

InitRace == \E specs \in RaceCollections : InitWith(specs)

NextRace ==
    \/ \E id \in RaceNames : CallFindSpec(SeqClient, id)
    \/ CallLoad(LoadClient, "specs")
    \/ ResumeLoad(LoadClient)
    \/ FindSpecThrows(SeqClient)
    \/ FindSpecIndexed(SeqClient)
    \/ FindSpecFallback(SeqClient)
    \/ FindSpecScanned(SeqClient)
    \/ \E c \in Clients : Return(c)
    \/ \E p \in PromiseIds : SpecsLoaded(p) \/ SpecsFailed(p)
    \/ ClearCache

SpecRace == InitRace /\ [][NextRace]_vars

\* ------------------------------------------------------------------------
\* Properties of the indices and of findSpec under clearCache (SpecRace)
\* ------------------------------------------------------------------------

\* a load of the specifications that was started after the last clearCache
\* has completed
LoadedSinceClear ==
    \E p \in PromiseIds :
        p.kind = "specs" /\ p.epoch = epoch /\ Fulfilled(p)

\* the first record, in collection order, that carries the alias
FirstWithAlias(alias) ==
    webSpecs[CHOOSE i \in DOMAIN webSpecs :
                /\ HasSeries(webSpecs[i])
                /\ webSpecs[i].series.shortname = alias
                /\ \A j \in 1 .. (i - 1) :
                      ~(HasSeries(webSpecs[j])
                        /\ webSpecs[j].series.shortname = alias)]

IndicesAgree ==
    /\ ~IsNull(specsIndex)
    /\ ~IsNull(seriesIndex)
    /\ \A i \in DOMAIN webSpecs :
          /\ MapHas(specsIndex, webSpecs[i].shortname)
          /\ MapGet(specsIndex, webSpecs[i].shortname).shortname
                = webSpecs[i].shortname
          /\ HasSeries(webSpecs[i]) =>
                /\ MapHas(seriesIndex, webSpecs[i].series.shortname)
                /\ MapGet(seriesIndex, webSpecs[i].series.shortname)
                      = FirstWithAlias(webSpecs[i].series.shortname)
    /\ \A key \in DOMAIN specsIndex.entries :
          \E i \in DOMAIN webSpecs : webSpecs[i].shortname = key
    /\ \A key \in DOMAIN seriesIndex.entries :
          \E i \in DOMAIN webSpecs :
              HasSeries(webSpecs[i]) /\ webSpecs[i].series.shortname = key

\* C29: whenever a load of the specifications has completed and clearCache
\* has not run since that load was started, both indices exist, the
\* shortname index maps every shortname to a record with it, the series
\* index maps every alias to the first record that carries it, and no index
\* has a key that the collection has not
IndexConsistency == LoadedSinceClear => IndicesAgree

\* a load started after a clearCache has completed over a collection in
\* which two records carry the same alias
IndexConsistencyWitness ==
    /\ LoadedSinceClear
    /\ epoch > 0
    /\ \E i, j \in DOMAIN webSpecs :
          /\ i < j
          /\ HasSeries(webSpecs[i]) /\ HasSeries(webSpecs[j])
          /\ webSpecs[i].series.shortname = webSpecs[j].series.shortname

\* C28: under every interleaving with clearCache and other load calls,
\* findSpec called with the shortname of a record returns that record
ExactUnderClearCache ==
    \A c \in Clients :
        (/\ Resolved(c, "findSpec")
         /\ \E i \in DOMAIN webSpecs : webSpecs[i].shortname = callers[c].id)
        => /\ ~IsUndefined(callers[c].result.value)
           /\ callers[c].result.value.shortname = callers[c].id

\* findSpec went through its fallback scan after a clearCache and still
\* returned the record with the shortname it was called with
ExactUnderClearCacheWitness ==
    \E c \in Clients :
        /\ Resolved(c, "findSpec")
        /\ callers[c].epoch < epoch
        /\ ~IsUndefined(callers[c].result.value)
        /\ callers[c].result.value.shortname = callers[c].id
\* ------------------------------------------------------------------------
\* The CSS projectors
\* ------------------------------------------------------------------------

UNKNOWN_SPEC == "unknown"

\* the literal part of /csswg\.org\/([^\/]+)/
CsswgHost == "csswg.org/"

\* the characters of href from position i up to the next slash or the end
RECURSIVE Segment(_, _)
Segment(href, i) ==
    IF i > Len(href) \/ SubSeq(href, i, i) = "/" THEN ""
    ELSE SubSeq(href, i, i) \o Segment(href, i + 1)

\* the positions at which the pattern matches: the literal part, then at
\* least one character that is not a slash
MatchesAt(href) ==
    {i \in 1 .. (Len(href) - Len(CsswgHost) + 1) :
        /\ SubSeq(href, i, i + Len(CsswgHost) - 1) = CsswgHost
        /\ Segment(href, i + Len(CsswgHost)) # ""}

\* a faulty variant of extractSpecFromHref: everything after the literal
\* part is taken
extractSpecFromHrefToEnd(href) ==
    IF ~IsStr(href) \/ Len(href.text) = 0 \/ MatchesAt(href.text) = {}
    THEN UNKNOWN_SPEC
    ELSE LET i == CHOOSE i \in MatchesAt(href.text) :
                      \A j \in MatchesAt(href.text) : i <= j
         IN  SubSeq(href.text, i + Len(CsswgHost), Len(href.text))

\* extractSpecFromHref: 'unknown' for no href and for no match, else the
\* group of the leftmost match
extractSpecFromHref(href) ==
    IF ~IsStr(href) \/ Len(href.text) = 0 \/ MatchesAt(href.text) = {}
    THEN UNKNOWN_SPEC
    ELSE LET i == CHOOSE i \in MatchesAt(href.text) :
                      \A j \in MatchesAt(href.text) : i <= j
         IN  Segment(href.text, i + Len(CsswgHost))

\* an entry of one of the tables of the CSS data
CssEntry(name, href) == [name |-> name, href |-> href]

\* the tables that loadCSS returns when the load fails
EmptyCss ==
    [properties |-> << >>, functions |-> << >>, types |-> << >>,
     selectors |-> << >>, atrules |-> << >>]

\* the object that the awaited loadCSS returned
CssDataOf(p) ==
    IF promises[p].value = EmptyCollection THEN EmptyCss ELSE webref.css

\* the entries as they are returned: the name with the derived spec
WithSpec(items) ==
    [i \in DOMAIN items |->
        [name |-> items[i].name, spec |-> extractSpecFromHref(items[i].href)]]

\* if (specShortname && !spec.includes(specShortname)) continue
KeepsSpec(spec, specShortname) ==
    ~(IsStr(specShortname) /\ Len(specShortname.text) > 0)
        \/ Includes(spec, specShortname.text)

\* the loop of getCSSProperties and getCSSValues
FilterBySpec(items, specShortname) ==
    LET keep(item) == KeepsSpec(item.spec, specShortname)
    IN  SelectSeq(WithSpec(items), keep)

\* a faulty variant of SortCss: the entries stay as they are
SortCssNot(items) == items

\* items.sort((a, b) => a.name.localeCompare(b.name)), a stable sort
RECURSIVE SortCss(_)
SortCss(items) ==
    IF items = << >> THEN << >>
    ELSE LET sorted == SortCss(SubSeq(items, 1, Len(items) - 1))
             last == items[Len(items)]
             ahead == Cardinality({i \in DOMAIN sorted :
                          \A j \in 1 .. i :
                              ~TitleBefore(last.name, sorted[j].name)})
         IN  SubSeq(sorted, 1, ahead) \o <<last>>
                \o SubSeq(sorted, ahead + 1, Len(sorted))

getCSSProperties(cssData, specShortname) ==
    SortCss(FilterBySpec(cssData.properties, specShortname))

getCSSValues(cssData, specShortname) ==
    SortCss(FilterBySpec(cssData.types \o cssData.functions, specShortname))

getCSSAtRules(cssData) == WithSpec(cssData.atrules)

getCSSSelectors(cssData) == WithSpec(cssData.selectors)

CssProjectors ==
    {"getCSSProperties", "getCSSValues", "getCSSAtRules", "getCSSSelectors"}

\* what the projector returns for the tables
CssOutcome(op, cssData, specShortname) ==
    CASE op = "getCSSProperties" -> getCSSProperties(cssData, specShortname)
      [] op = "getCSSValues" -> getCSSValues(cssData, specShortname)
      [] op = "getCSSAtRules" -> getCSSAtRules(cssData)
      [] op = "getCSSSelectors" -> getCSSSelectors(cssData)

\* a projector is entered: await loadCSS(); the two that take no argument
\* are called without one
CallCss(c, op, specShortname) ==
    /\ callers[c].op = "idle"
    /\ op \in {"getCSSAtRules", "getCSSSelectors"} => specShortname = Undefined
    /\ Load(c, <<"css">>,
            [IdleCall EXCEPT !.op = op, !.kind = "css", !.id = specShortname,
                             !.epoch = epoch])
    /\ UNCHANGED <<webSpecs, webref, indexVars, epoch, preload, mainVars>>

\* the projector after its await
CssLoaded(c) ==
    /\ callers[c].op \in CssProjectors
    /\ callers[c].pc = "await"
    /\ Settled(callers[c].awaiting[1])
    /\ callers' = [callers EXCEPT ![c].pc = "done",
          ![c].result =
             [status |-> "ok",
              value |-> CssOutcome(callers[c].op,
                                   CssDataOf(callers[c].awaiting[1]),
                                   callers[c].id)]]
    /\ UNCHANGED <<webSpecs, webref, promises, cacheVars, indexVars, epoch,
                   started, loadCalled, preload, mainVars>>

\* SpecCss: one client calls the four projectors over tables of entries
\* with every kind of reference URL
GridHref == "https://drafts.csswg.org/css-grid-2/#propdef-grid"
FlexHref == "https://drafts.csswg.org/css-flexbox-1"
BareHref == "https://drafts.csswg.org/"
OtherHref == "https://www.w3.org/TR/css-grid-1/"

CssEntries ==
    { CssEntry(<<"b">>, Str(GridHref)),
      CssEntry(<<"a">>, Str(FlexHref)),
      CssEntry(<<"a", "b">>, Str(BareHref)),
      CssEntry(<<"a">>, Str(OtherHref)),
      CssEntry(<<"b", "a">>, Undefined),
      CssEntry(<<"a", "a">>, Str(GridHref)) }

CssTables == SeqsUpTo(CssEntries, MaxSpecs)

Reverse(items) == [i \in DOMAIN items |-> items[Len(items) + 1 - i]]

\* the data of @webref/css: the tables hold the entries in one order or in
\* the other
CssWebref(items) ==
    [idl |-> << >>, elements |-> << >>,
     css |-> [properties |-> items, functions |-> Reverse(items),
              types |-> items, selectors |-> Reverse(items),
              atrules |-> items]]

CssFilters ==
    {Undefined, Str(""), Str("grid"), Str("css-flexbox-1"), Str("unknown"),
     Str("w3")}

InitCss == \E items \in CssTables : InitWorld(ExampleSpecs, CssWebref(items))

NextCss ==
    \/ \E op \in CssProjectors, specShortname \in CssFilters :
          CallCss(SeqClient, op, specShortname)
    \/ CssLoaded(SeqClient)
    \/ Return(SeqClient)
    \/ \E p \in PromiseIds : DataLoaded(p, TRUE) \/ DataLoaded(p, FALSE)

SpecCss == InitCss /\ [][NextCss]_vars

\* ------------------------------------------------------------------------
\* Properties of the CSS projectors (SpecCss)
\* ------------------------------------------------------------------------

CssDone(c) == callers[c].op \in CssProjectors /\ callers[c].pc = "done"

\* the table that the projector reads
CssSource(c) ==
    LET cssData == CssDataOf(callers[c].awaiting[1])
    IN  CASE callers[c].op = "getCSSProperties" -> cssData.properties
          [] callers[c].op = "getCSSValues" -> cssData.types \o cssData.functions
          [] callers[c].op = "getCSSAtRules" -> cssData.atrules
          [] callers[c].op = "getCSSSelectors" -> cssData.selectors

\* the spec id of each reference URL of the tables: the path segment after
\* the host, 'unknown' where there is none
DerivedSpec(href) ==
    CASE href = Str(GridHref) -> "css-grid-2"
      [] href = Str(FlexHref) -> "css-flexbox-1"
      [] OTHER -> "unknown"

SortedByName(items) ==
    \A i \in 1 .. (Len(items) - 1) :
        ~TitleBefore(items[i + 1].name, items[i].name)

\* how often the entry with this name and spec is in the result, and how
\* often the source has an entry with this name whose derived spec is this
\* one and passes
CssReturned(c, name, spec) ==
    Cardinality({i \in DOMAIN callers[c].result.value :
                    callers[c].result.value[i] = [name |-> name, spec |-> spec]})
CssExpected(c, name, spec, passes(_)) ==
    Cardinality({i \in DOMAIN CssSource(c) :
                    /\ CssSource(c)[i].name = name
                    /\ DerivedSpec(CssSource(c)[i].href) = spec
                    /\ passes(spec)})

CssNames == {entry.name : entry \in CssEntries}
CssSpecs == {DerivedSpec(entry.href) : entry \in CssEntries}

\* the result has, as often as the source has them, the entries with their
\* derived specs that pass
ExactlyThose(c, passes(_)) ==
    /\ \A i \in DOMAIN callers[c].result.value :
          /\ callers[c].result.value[i].name \in CssNames
          /\ callers[c].result.value[i].spec \in CssSpecs
    /\ \A name \in CssNames, spec \in CssSpecs :
          CssReturned(c, name, spec) = CssExpected(c, name, spec, passes)

FilterGiven(c) == IsStr(callers[c].id)

ContainsFilter(c, spec) ==
    FilterGiven(c) => Includes(spec, callers[c].id.text)

\* C23 as stated: each of the four projectors returns its entries sorted by
\* name, and with a filter exactly the entries whose derived spec contains
\* the filter
AllFourSortedAndFiltered ==
    \A c \in Clients :
        CssDone(c) =>
            LET passes(spec) == ContainsFilter(c, spec)
            IN  /\ SortedByName(callers[c].result.value)
                /\ ExactlyThose(c, passes)

\* C23: getCSSProperties and getCSSValues return their entries sorted by
\* name, and with a filter exactly the entries whose derived spec contains
\* the filter; getCSSAtRules and getCSSSelectors take no filter and return
\* every entry of their table with its derived spec, in the order of the
\* table
SortedAndFilteredOrInTableOrder ==
    \A c \in Clients :
        CssDone(c) =>
            LET passes(spec) == ContainsFilter(c, spec)
                any(spec) == TRUE
            IN  IF callers[c].op \in {"getCSSProperties", "getCSSValues"}
                THEN /\ SortedByName(callers[c].result.value)
                     /\ ExactlyThose(c, passes)
                ELSE /\ ~FilterGiven(c)
                     /\ ExactlyThose(c, any)
                     /\ \A i \in DOMAIN CssSource(c) :
                           callers[c].result.value[i].name = CssSource(c)[i].name

\* a filtered call returned some entries of a table and left others out,
\* and the table was not in the order of the names
SortedAndFilteredWitness ==
    \E c \in Clients :
        /\ CssDone(c)
        /\ FilterGiven(c)
        /\ Len(callers[c].id.text) > 0
        /\ Len(callers[c].result.value) > 0
        /\ Len(callers[c].result.value) < Len(CssSource(c))
        /\ ~SortedByName(CssSource(c))
\* SpecTools: one client repeats the projectors while the other calls the
\* projectors, findSpec, listSpecs and the load functions, and clearCache
\* runs at any moment
Projectors ==
    CssProjectors \cup {"getPwaSpecs", "getCorePwaSpecs", "getElements"}

ToolsWebref ==
    [idl |-> << >>,
     elements |-> <<ElementKey(1), ElementKey(2)>>,
     css |-> CssWebref(<<CssEntry(<<"b">>, Str(GridHref)),
                         CssEntry(<<"a">>, Str(FlexHref))>>).css]

\* the collection: records that match by title, by shortname, by series
\* alias and not at all, not in the order in which getPwaSpecs returns them
PwaRecord(shortname) == CHOOSE spec \in PwaRecords : spec.shortname = shortname
ToolsSpecs ==
    <<PwaRecord("storage"), PwaRecord("push-api-2"), PwaRecord("dom"),
      PwaRecord("web-share"), PwaRecord("service-workers")>>

NoOptions == ListSpecsOptions(Undefined, Undefined, Undefined, Limit(1))

ToolsIdentifiers == {"dom", "push-api"}

InitTools == InitWorld(ToolsSpecs, ToolsWebref)

\* a projector is called
CallProjector(c) ==
    \/ CallGetPwaSpecs(c)
    \/ CallGetCorePwaSpecs(c)
    \/ \E id \in {<< >>, ElementKey(1)} : CallGetElements(c, id)
    \/ \E op \in CssProjectors, specShortname \in {Undefined, Str("grid")} :
          CallCss(c, op, specShortname)

\* a projector goes on after its await
ResumeProjector(c) ==
    \/ GetPwaSpecsResumed(c)
    \/ GetCorePwaSpecsResumed(c)
    \/ GetElementsLoaded(c)
    \/ CssLoaded(c)

NextTools ==
    \/ \E c \in Clients : CallProjector(c)
    \/ \E c \in Clients : ResumeProjector(c)
    \/ \E c \in Clients : Return(c)
    \/ \E id \in ToolsIdentifiers : CallFindSpec(LoadClient, id)
    \/ FindSpecThrows(LoadClient)
    \/ FindSpecIndexed(LoadClient)
    \/ FindSpecFallback(LoadClient)
    \/ FindSpecScanned(LoadClient)
    \/ CallListSpecs(LoadClient, NoOptions)
    \/ ListSpecsResumed(LoadClient)
    \/ Loads
    \/ ClearCache

SpecTools == InitTools /\ [][NextTools]_vars

\* ------------------------------------------------------------------------
\* Properties of the tools together (SpecTools)
\* ------------------------------------------------------------------------

\* a step of a tool: a call is entered, goes on after an await, or returns
ToolStep == callers' # callers

\* the collections, the indices and the values of the settled promises are
\* after the step what they were before it
CachesUntouched ==
    /\ UNCHANGED <<webSpecs, webref, specsIndex, seriesIndex>>
    /\ \A p \in PromiseIds :
          (Settled(p) /\ p \in DOMAIN promises') => promises'[p] = promises[p]

\* two finished calls of one projector with the same arguments, both made
\* after the same clearCache
RepeatedCall(c, d) ==
    /\ c # d
    /\ callers[c].op \in Projectors
    /\ callers[c].op = callers[d].op
    /\ callers[c].id = callers[d].id
    /\ callers[c].pc = "done" /\ callers[d].pc = "done"
    /\ callers[c].epoch = callers[d].epoch

SameOutputs ==
    \A c, d \in Clients :
        RepeatedCall(c, d) => callers[c].result = callers[d].result

\* C22: no step of a tool changes a cached collection or an index, and two
\* calls of a projector with the same arguments and no clearCache between
\* them return the same entries in the same order
ToolsLeaveCaches ==
    /\ ToolStep => CachesUntouched
    /\ SameOutputs'

ReadOnlyTools == [][ToolsLeaveCaches]_vars

\* getPwaSpecs was called twice and returned the same two or more records,
\* in an order that is not the order of the collection, with findSpec and
\* the other projectors called before
ReadOnlyToolsWitness ==
    /\ RepeatedCall(SeqClient, LoadClient)
    /\ callers[SeqClient].op = "getPwaSpecs"
    /\ callers[SeqClient].result.status = "ok"
    /\ Len(callers[SeqClient].result.value) > 1
    /\ callers[SeqClient].result.value[1].shortname # webSpecs[1].shortname
    /\ ~IsNull(specsIndex)
    /\ ~IsNull(cssPromise) /\ ~IsNull(elementsPromise)

====
